---- MODULE Spec2Model ----
(***************************************************************************)
(* A model of limitwatch's fetch / fallback / history core:                *)
(*   - the History Store (src/limitwatch/storage.py),                      *)
(*   - the batch fetch orchestrator (src/limitwatch/cli.py),               *)
(*   - the providers' fetch_quotas with their strategy caches              *)
(*     (src/limitwatch/providers/*.py, src/gemini_quota/providers/*.py).   *)
(* Each part has its own specification over the shared variables; the      *)
(* variables of the other parts stay at their initial value.               *)
(***************************************************************************)
EXTENDS Integers, Sequences, FiniteSets, TLC

(***************************************************************************)
(* Bounds of the model.                                                    *)
(***************************************************************************)
\* Largest timestamp (in ticks) a record or purge call is given.
MaxTime == 2
\* Ticks per calendar hour: timestamps t and u share an hour bucket iff
\* t \div TicksPerHour = u \div TicksPerHour.
TicksPerHour == 2
\* Cap on the table's size: a record call that would pass it is not made.
MaxRows == 2
\* Largest number of accounts in the accounts file.
MaxAccounts == 2
\* Cap on the network calls one account's fetch issues.
MaxCalls == 2
\* Largest time budget (in ticks) an account's fetch is given as its deadline.
MaxBudget == 1
\* Largest UTC offset (in ticks) of a datetime given as a bound.
MaxOffset == 1

VARIABLES
    rows,       \* the quota_snapshots table: a set of row records
    storeOp,    \* history: the last store call, a summary of its inputs, its result
    accounts,           \* the accounts file: position -> account_data
    indices_to_check,   \* the selected positions, in file order
    pc,                 \* where the show command is
    task,               \* position -> the account's task in the pool
    idx_to_result,      \* what _fetch_all_quotas has collected
    results,            \* the list _build_json_results has built
    out_of_order,       \* history: a task finished before one submitted earlier
    silent_met,         \* history: a call ended by its timeout, the remote silent
    acct,               \* provider part: the account_data the provider works on
    lastCall,           \* history: the provider call that has just ended
    prevCall            \* history: what the call before it did with the variants

storeVars == <<rows, storeOp>>
batchVars ==
    <<accounts, indices_to_check, pc, task, idx_to_result, results, out_of_order,
      silent_met>>
provVars == <<acct, lastCall, prevCall>>
vars == <<storeVars, batchVars, provVars>>

(***************************************************************************)
(* The parts at rest: a specification of one part keeps the others here.    *)
(***************************************************************************)
\* Python's None, and a value that is not None.
None == [some |-> FALSE]
Some(x) == [some |-> TRUE, v |-> x]

\* No show command is running.
BatchIdle ==
    /\ accounts = <<>>
    /\ indices_to_check = <<>>
    /\ pc = "idle"
    /\ task = <<>>
    /\ idx_to_result = <<>>
    /\ results = <<>>
    /\ out_of_order = FALSE
    /\ silent_met = FALSE

\* The history database is empty and no call on it is running.
StoreIdle ==
    /\ rows = {}
    /\ storeOp = [kind |-> "none"]

\* No provider is at work.
ProvIdle ==
    /\ acct = [type |-> "none"]
    /\ lastCall = [op |-> "none"]
    /\ prevCall = [op |-> "none"]

(***************************************************************************)
(* History Store: data.                                                    *)
(***************************************************************************)
\* The (account_email, provider_type) pairs record is called with: one email
\* is known to two providers.
Callers == { <<"a@x", "google">>, <<"a@x", "openai">>, <<"b@x", "google">> }

\* quota.get("name", "unknown"): a dict may lack the key.
NoName == "<absent>"

\* The value fields of a quota dict; the payloads differ in every field.
FirstPayload ==
    [display_name |-> "Quota (80/100)", remaining_pct |-> 80, used |-> 20,
     limit |-> 100, reset |-> [kind |-> "text", s |-> "Unknown"]]

GoodPayloads ==
    { FirstPayload,
      [display_name |-> "Quota (140/200)", remaining_pct |-> 70, used |-> 60,
       limit |-> 200, reset |-> [kind |-> "absent"]] }

\* What an is_error dict carries besides its message.
ErrorPayload ==
    [display_name |-> "Error Quota", remaining_pct |-> 0, used |-> 0,
     limit |-> 0, reset |-> [kind |-> "text", s |-> "N/A"]]

\* The quota dicts a provider hands over: named ones with either payload, one
\* that lacks its name, one flagged is_error.
QuotaDicts ==
    { [name |-> "q1", is_error |-> FALSE, payload |-> p] : p \in GoodPayloads }
    \cup { [name |-> NoName, is_error |-> FALSE, payload |-> FirstPayload] }
    \cup { [name |-> "q1", is_error |-> TRUE, payload |-> ErrorPayload] }

\* The lists of at most two quota dicts.
QuotaLists ==
    {<<>>} \cup { <<q>> : q \in QuotaDicts } \cup { <<p, q>> : p, q \in QuotaDicts }

Times == 0..MaxTime

\* timestamp.strftime("%Y-%m-%d %H")
HourBucket(ts) == ts \div TicksPerHour

\* str(quota.get("reset", ""))
ResetText(r) ==
    IF r.kind = "absent" THEN "" ELSE r.s

\* quota.get("name", "unknown")
NameOf(q) == IF q.name = NoName THEN "unknown" ELSE q.name

\* The row one INSERT statement of record_quotas writes. The columns id and
\* created_at, which SQLite fills in and no operation reads, are left out.
MakeRow(email, ptype, q, ts) ==
    [ account_email |-> email,
      provider_type |-> ptype,
      quota_name    |-> NameOf(q),
      display_name  |-> q.payload.display_name,
      remaining_pct |-> q.payload.remaining_pct,
      used          |-> q.payload.used,
      limit_val     |-> q.payload.limit,
      reset_time    |-> ResetText(q.payload.reset),
      timestamp     |-> ts,
      hour_bucket   |-> HourBucket(ts) ]

\* UNIQUE(account_email, quota_name, hour_bucket)
KeyOf(r) == <<r.account_email, r.quota_name, r.hour_bucket>>

\* A plain INSERT into a table without the UNIQUE constraint.
InsertAppend(table, row) == table \cup {row}

\* INSERT OR IGNORE: the row already stored wins.
InsertOrIgnore(table, row) ==
    IF \E r \in table : KeyOf(r) = KeyOf(row) THEN table ELSE table \cup {row}

\* INSERT OR REPLACE under a UNIQUE constraint that leaves the hour out.
ReplaceAcrossHours(table, row) ==
    { r \in table : r.account_email # row.account_email \/ r.quota_name # row.quota_name }
    \cup {row}

\* INSERT OR REPLACE: the conflicting row is deleted, the new one inserted.
InsertOrReplace(table, row) ==
    { r \in table : KeyOf(r) # KeyOf(row) } \cup {row}

\* if quota.get("is_error"): continue
SkipsNone(q) == FALSE
Skipped(q) == q.is_error

\* inserted += 1
Counted(inserted, q) == IF Skipped(q) THEN inserted ELSE inserted + 1

\* The loop of record_quotas over the list: <<table, inserted>>.
RECURSIVE RecordLoop(_, _, _, _, _, _)
RecordLoop(table, inserted, email, ptype, quotas, ts) ==
    IF quotas = <<>> THEN <<table, inserted>>
    ELSE LET q == Head(quotas) IN
         RecordLoop(IF Skipped(q) THEN table
                    ELSE InsertOrReplace(table, MakeRow(email, ptype, q, ts)),
                    Counted(inserted, q), email, ptype, Tail(quotas), ts)

(***************************************************************************)
(* History Store: what the last call was given (history, for the claims).  *)
(***************************************************************************)
\* The indices of the list's non-error dicts.
GoodIdx(quotas) == { i \in 1..Len(quotas) : ~quotas[i].is_error }

\* The names the list's non-error dicts are stored under.
GoodNames(quotas) == { NameOf(quotas[i]) : i \in GoodIdx(quotas) }

\* The last non-error dict of the list stored under name n.
LastGood(quotas, n) ==
    LET idx == { i \in GoodIdx(quotas) : NameOf(quotas[i]) = n }
    IN  quotas[CHOOSE i \in idx : \A j \in idx : j <= i]

\* The stored row under key <<email, n, hour>>, when there is one.
Stored(table, email, n, hour) ==
    { r \in table : KeyOf(r) = <<email, n, hour>> }

NoOp == [kind |-> "none"]

(***************************************************************************)
(* History Store: operations.                                              *)
(***************************************************************************)
StoreInit ==
    /\ rows = {}
    /\ storeOp = NoOp
    /\ BatchIdle
    /\ ProvIdle

\* Storage.record_quotas(account_email, provider_type, quotas, timestamp)
RecordQuotas ==
    /\ storeOp = NoOp
    /\ \E caller \in Callers, quotas \in QuotaLists, ts \in Times :
        LET email == caller[1]
            ptype == caller[2]
            res == RecordLoop(rows, 0, email, ptype, quotas, ts)
            had == { n \in GoodNames(quotas) : Stored(rows, email, n, HourBucket(ts)) # {} }
        IN
        /\ Cardinality(res[1]) <= MaxRows
        /\ rows' = res[1]
        /\ storeOp' = [kind |-> "record", email |-> email, ptype |-> ptype, ts |-> ts,
                       ret |-> res[2],
                       nGood |-> Cardinality(GoodIdx(quotas)),
                       nError |-> Len(quotas) - Cardinality(GoodIdx(quotas)),
                       last |-> [n \in GoodNames(quotas) |-> LastGood(quotas, n).payload],
                       prev |-> [n \in had |->
                                   CHOOSE r \in Stored(rows, email, n, HourBucket(ts)) : TRUE],
                       sizeBefore |-> Cardinality(rows)]
    /\ UNCHANGED <<batchVars, provVars>>

(***************************************************************************)
(* Datetimes and their texts.  A datetime is a wall-clock reading with a   *)
(* UTC offset; the instant it names is the reading less the offset.  The   *)
(* table keeps timestamp.isoformat(), a text, and SQLite compares texts    *)
(* byte by byte: the wall-clock part first, the offset suffix after it.    *)
(***************************************************************************)
\* datetime(..., tzinfo=timezone.utc), datetime.now(timezone.utc)
Utc(t) == [wall |-> t, off |-> 0]

\* The datetimes a caller passes as a bound: datetime.fromisoformat takes
\* any offset.
Datetimes == { [wall |-> w, off |-> o] : w \in Times, o \in 0..MaxOffset }

Instant(dt) == dt.wall - dt.off

\* dt.isoformat(), as the pair of its wall-clock part and its offset suffix.
IsoFormat(dt) == <<dt.wall, dt.off>>

\* The order of two such texts under SQLite's BINARY collation.
TextLess(a, b) == a[1] < b[1] \/ (a[1] = b[1] /\ a[2] < b[2])

\* The timestamp column of a row: record_quotas is given UTC datetimes.
RowText(r) == IsoFormat(Utc(r.timestamp))

\* DELETE FROM quota_snapshots WHERE timestamp < ?
PurgeSelected(table, before) ==
    { r \in table : TextLess(RowText(r), IsoFormat(before)) }

\* Storage.purge_old_data(before)
PurgeOldData ==
    /\ storeOp = NoOp
    /\ \E before \in Datetimes :
        LET gone == PurgeSelected(rows, before) IN
        /\ rows' = rows \ gone
        /\ storeOp' = [kind |-> "purge", before |-> before, ret |-> Cardinality(gone),
                       sizeBefore |-> Cardinality(rows)]
    /\ UNCHANGED <<batchVars, provVars>>

\* The call has returned; its caller goes on to the next one.
StoreReturn ==
    /\ storeOp # NoOp
    /\ storeOp' = NoOp
    /\ UNCHANGED <<rows, batchVars, provVars>>

StoreNext == RecordQuotas \/ PurgeOldData \/ StoreReturn

SpecStore == StoreInit /\ [][StoreNext]_vars

(***************************************************************************)
(* History Store: claims.                                                  *)
(***************************************************************************)
\* C1: after any sequence of record and purge calls at most one row exists
\* per (account_email, quota_name, hour_bucket), and a record call whose
\* non-error names all have a row for that account and hour already does
\* not grow the table.
C1_OneRowPerBucket ==
    /\ \A r1, r2 \in rows : KeyOf(r1) = KeyOf(r2) => r1 = r2
    /\ (storeOp.kind = "record" /\ DOMAIN storeOp.prev = DOMAIN storeOp.last)
          => Cardinality(rows) = storeOp.sizeBefore

\* A record call in an hour that already held a row of the same account and
\* name has returned, and the table has kept its size.
C1_Witness ==
    /\ storeOp.kind = "record"
    /\ DOMAIN storeOp.prev # {}
    /\ DOMAIN storeOp.prev = DOMAIN storeOp.last
    /\ Cardinality(rows) = storeOp.sizeBefore

\* The row a record call is to leave for name n: every column comes from the
\* call, none from the row it replaces.
RowOfCall(op, n) ==
    [ account_email |-> op.email,
      provider_type |-> op.ptype,
      quota_name    |-> n,
      display_name  |-> op.last[n].display_name,
      remaining_pct |-> op.last[n].remaining_pct,
      used          |-> op.last[n].used,
      limit_val     |-> op.last[n].limit,
      reset_time    |-> IF op.last[n].reset.kind = "absent" THEN "" ELSE op.last[n].reset.s,
      timestamp     |-> op.ts,
      hour_bucket   |-> op.ts \div TicksPerHour ]

\* C2: when a snapshot is recorded in an hour that already holds a row of
\* the same account and name, the store afterwards holds exactly one row for
\* that account, name and hour, and every column of it (remaining_pct, used,
\* limit, reset, timestamp, ...) is the later snapshot's.
C2_LatestValuesWin ==
    storeOp.kind = "record" =>
        \A n \in DOMAIN storeOp.prev :
            Stored(rows, storeOp.email, n, HourBucket(storeOp.ts)) = {RowOfCall(storeOp, n)}

\* A second snapshot of the same hour, with another timestamp and other
\* values than the stored one, has been recorded.
C2_Witness ==
    /\ storeOp.kind = "record"
    /\ \E n \in DOMAIN storeOp.prev :
        /\ storeOp.prev[n].timestamp # storeOp.ts
        /\ storeOp.prev[n].remaining_pct # storeOp.last[n].remaining_pct
        /\ storeOp.prev[n].used # storeOp.last[n].used
        /\ RowOfCall(storeOp, n) \in rows

\* C3: no is_error record is ever written: record skips every record flagged
\* is_error, writes every other one (the last of a name in the list is the
\* one left) and returns the number of non-error records.
C3_ErrorsNeverStored ==
    /\ \A r \in rows : r.display_name # ErrorPayload.display_name
    /\ storeOp.kind = "record" =>
        /\ storeOp.ret = storeOp.nGood
        /\ \A n \in DOMAIN storeOp.last : RowOfCall(storeOp, n) \in rows
        /\ Cardinality(rows) <= storeOp.sizeBefore + storeOp.nGood

\* A list of one error record and one valid record has been recorded: the
\* call returned 1 and the valid record is the only row.
C3_Witness ==
    /\ storeOp.kind = "record"
    /\ storeOp.nError = 1
    /\ storeOp.nGood = 1
    /\ storeOp.ret = 1
    /\ storeOp.sizeBefore = 0
    /\ Cardinality(rows) = 1

(***************************************************************************)
(* Batch fetch orchestrator: data.                                         *)
(***************************************************************************)
\* max_workers = min(len(indices_to_check), 10)
PoolLimit == 10
\* FETCH_TIMEOUT, the per-call timeout of a provider, in ticks.
FETCH_TIMEOUT == 2

NoEmail == "<no email>"
NoType == "<no type>"
NoAlias == "<no alias>"

\* The account_data dicts of the accounts file: a Google account that leaves
\* its type to the default, an API-key account without email and alias.
AccountDatas ==
    { [type |-> NoType, email |-> "a@x", alias |-> "work"],
      [type |-> "chutes", email |-> NoEmail, alias |-> NoAlias] }

\* The accounts files: position (from 0) -> account_data. Neighbours are of
\* different kinds, so that a file holds both.
AccountsFiles ==
    { f \in [0..(MaxAccounts - 1) -> AccountDatas] :
        \A i \in DOMAIN f : (i + 1) \in DOMAIN f => f[i] # f[i + 1] }

\* acc_data.get("type", "google")
AccountType(acc) == IF acc.type = NoType THEN "google" ELSE acc.type

\* acc_data.get("email", f"Account {idx}")
\* (a text is the tuple of its parts)
EmailOf(idx, acc) == IF acc.email = NoEmail THEN <<"Account", idx>> ELSE <<acc.email>>

\* acc_data.get("alias", "")
AliasOf(acc) == IF acc.alias = NoAlias THEN "" ELSE acc.alias

\* The --account and --provider flags of the show command.
NoFlag == "<no flag>"
AccountFlags == {NoFlag, "a@x", "work", "nobody"}
ProviderFlags == {NoFlag, "google", "chutes"}

\* The test of _filter_accounts on one account (accounts carry no group).
Selected(a, account, provider) ==
    /\ ~(account # NoFlag /\ a.email # account /\ a.alias # account)
    /\ ~(provider # NoFlag /\ AccountType(a) # provider)

\* _filter_accounts: the selected positions from position i on, in file order.
RECURSIVE FilterAccounts(_, _, _, _)
FilterAccounts(accs, i, account, provider) ==
    IF i \notin DOMAIN accs THEN <<>>
    ELSE (IF Selected(accs[i], account, provider) THEN <<i>> ELSE <<>>)
         \o FilterAccounts(accs, i + 1, account, provider)

\* The positions of a list of positions.
Range(seq) == { seq[k] : k \in 1..Len(seq) }

\* What QuotaClient.fetch_quotas does for its caller: it returns a list of
\* quota dicts (maybe empty, maybe one is_error dict) or it raises.
FetchOutcomes ==
    { [kind |-> "return", quotas |-> <<>>],
      [kind |-> "return", quotas |-> <<"q1">>],
      [kind |-> "raise", msg |-> "Unauthorized: Invalid API key"] }

\* What set_deadline is given: None, or an instant; the model keeps the
\* ticks left to it (deadline - time.perf_counter()).
Deadlines == {None} \cup { Some(n) : n \in 0..MaxBudget }

Min(a, b) == IF a <= b THEN a ELSE b

\* has_time_remaining without the test of the clock.
AlwaysTime(deadline) == TRUE

\* BaseProvider.has_time_remaining
HasTimeRemaining(deadline) ==
    IF deadline = None THEN TRUE ELSE deadline.v > 0

\* timeout=None: the call waits for as long as the remote stays silent.
NoTimeout(deadline, default_timeout) == None

\* BaseProvider.time_remaining: the timeout argument of the next call.
TimeRemaining(deadline, default_timeout) ==
    IF deadline = None THEN Some(default_timeout)
    ELSE IF deadline.v <= 0 THEN Some(0)
    ELSE Some(Min(default_timeout, deadline.v))

\* The tuple fetch_account_data returns.
ResultTuple(email, quotas, client, error) ==
    [raised |-> FALSE, email |-> email, quotas |-> quotas, client |-> client,
     error |-> error]

\* fetch_account_data up to the fetch: the Google credentials are loaded and
\* refreshed. None when the fetch is to go on.
LoadCredentials(idx, acc, creds, refresh) ==
    IF AccountType(acc) # "google" THEN None
    ELSE IF ~creds
    THEN Some(ResultTuple(EmailOf(idx, acc), None, None,
                          Some("Could not load credentials")))
    ELSE IF refresh = "raise"
    THEN Some(ResultTuple(EmailOf(idx, acc), None, None, Some("Token refresh failed")))
    ELSE None

\* fetch_account_data without its except clause: the exception leaves the task.
FetchUncaught(idx, acc, fetch) ==
    IF fetch.kind = "raise" THEN [raised |-> TRUE, msg |-> fetch.msg]
    ELSE ResultTuple(EmailOf(idx, acc), Some(fetch.quotas), Some("client"), None)

\* fetch_account_data from the fetch on: try / except Exception.
FetchAndCatch(idx, acc, fetch) ==
    IF fetch.kind = "raise"
    THEN ResultTuple(EmailOf(idx, acc), None, None, Some(fetch.msg))
    ELSE ResultTuple(EmailOf(idx, acc), Some(fetch.quotas), Some("client"), None)

\* The key a result is stored under, were it the number of results so far.
KeyByArrival(idx, collected) == collected

\* idx_to_result[idx] = future.result()
ResultKey(idx, collected) == idx

NoCall == [inflight |-> FALSE]

\* A task as submitted to the pool.
QueuedTask ==
    [st |-> "queued", calls |-> 0, deadline |-> None, call |-> NoCall,
     future |-> None]

\* The positions whose task is in state st.
InState(st) == { i \in DOMAIN task : task[i].st = st }

\* The tasks a worker thread is busy with.
Busy == InState("running") \cup InState("blocked")

\* A task submitted before task i has not finished yet.
OthersPending(i) ==
    \E j \in DOMAIN task : j < i /\ task[j].st \in {"queued", "running", "blocked"}

\* A pool with a worker thread per task.
UnboundedWorkers(n) == n

\* max_workers = min(len(indices_to_check), 10)
PoolWorkers(n) == Min(n, PoolLimit)

Positions == 0..(MaxAccounts - 1)

(***************************************************************************)
(* Batch fetch orchestrator: the show command's fetch and its tasks.       *)
(***************************************************************************)
BatchInit ==
    /\ StoreIdle
    /\ ProvIdle
    /\ accounts \in AccountsFiles
    /\ indices_to_check = <<>>
    /\ pc = "idle"
    /\ task = <<>>
    /\ idx_to_result = <<>>
    /\ results = <<>>
    /\ out_of_order = FALSE
    /\ silent_met = FALSE

\* show: _filter_accounts, then _fetch_all_quotas submits one task per
\* selected account; without a selected account the command ends.
FilterAndSubmit ==
    /\ pc = "idle"
    /\ \E account \in AccountFlags, provider \in ProviderFlags :
        LET sel == FilterAccounts(accounts, 0, account, provider) IN
        /\ indices_to_check' = sel
        /\ pc' = IF sel = <<>> THEN "no_accounts" ELSE "fetching"
        /\ task' = [i \in Range(sel) |-> QueuedTask]
    /\ UNCHANGED <<accounts, idx_to_result, results, out_of_order, silent_met, storeVars,
                   provVars>>

\* A free worker thread takes the oldest queued task: fetch_account_data
\* runs up to the fetch (a Google account without usable credentials ends
\* here), and the provider is given its deadline.
TaskStart(i) ==
    /\ pc \in {"fetching", "raised"}
    /\ i \in InState("queued")
    /\ \A j \in InState("queued") : i <= j
    /\ Cardinality(Busy) < PoolWorkers(Len(indices_to_check))
    /\ \E creds \in BOOLEAN, refresh \in {"ok", "raise"}, deadline \in Deadlines :
        LET early == LoadCredentials(i, accounts[i], creds, refresh) IN
        IF early # None
        THEN /\ task' = [task EXCEPT ![i].st = "done", ![i].future = early]
             /\ out_of_order' = (out_of_order \/ OthersPending(i))
        ELSE /\ task' = [task EXCEPT ![i].st = "running", ![i].deadline = deadline]
             /\ out_of_order' = out_of_order
    /\ UNCHANGED <<accounts, indices_to_check, pc, idx_to_result, results, silent_met,
                   storeVars, provVars>>

\* The provider polls has_time_remaining and issues a network call with
\* timeout=self.time_remaining(FETCH_TIMEOUT); the remote answers or is silent.
IssueCall(i) ==
    /\ i \in InState("running")
    /\ task[i].calls < MaxCalls
    /\ HasTimeRemaining(task[i].deadline)
    /\ \E silent \in BOOLEAN :
        task' = [task EXCEPT ![i].st = "blocked",
                             ![i].calls = @ + 1,
                             ![i].call = [inflight |-> TRUE, silent |-> silent,
                                          timeout |-> TimeRemaining(task[i].deadline,
                                                                    FETCH_TIMEOUT)]]
    /\ UNCHANGED <<accounts, indices_to_check, pc, idx_to_result, results, out_of_order,
                   silent_met, storeVars, provVars>>

\* The call returns after d ticks: with the remote's answer, or, the timeout
\* over, with an exception. A call without timeout to a silent remote does
\* not return.
CallEnds(i) ==
    /\ i \in InState("blocked")
    /\ \E d \in 0..FETCH_TIMEOUT :
        LET c == task[i].call
            dl == task[i].deadline
        IN
        /\ IF c.timeout = None THEN ~c.silent
           ELSE IF c.silent THEN d = c.timeout.v
           ELSE d <= c.timeout.v
        /\ task' = [task EXCEPT ![i].st = "running",
                                ![i].call = NoCall,
                                ![i].deadline = IF dl = None THEN None
                                                ELSE IF d >= dl.v THEN Some(0)
                                                ELSE Some(dl.v - d)]
        /\ silent_met' = (silent_met \/ c.silent)
    /\ UNCHANGED <<accounts, indices_to_check, pc, idx_to_result, results, out_of_order,
                   storeVars, provVars>>

\* QuotaClient.fetch_quotas returns or raises, and fetch_account_data ends:
\* the task's future holds what it returned.
TaskFinish(i) ==
    /\ i \in InState("running")
    /\ \E fetch \in FetchOutcomes :
        task' = [task EXCEPT ![i] = [QueuedTask EXCEPT
                    !.st = "done",
                    !.future = Some(FetchAndCatch(i, accounts[i], fetch))]]
    /\ out_of_order' = (out_of_order \/ OthersPending(i))
    /\ UNCHANGED <<accounts, indices_to_check, pc, idx_to_result, results, silent_met,
                   storeVars, provVars>>

\* as_completed yields a finished future: idx_to_result[idx] = future.result(),
\* which raises what the task raised.
AsCompleted(i) ==
    /\ pc = "fetching"
    /\ i \in InState("done")
    /\ LET r == task[i].future.v
           n == Cardinality(InState("collected"))
       IN
       IF r.raised
       THEN /\ pc' = "raised"
            /\ idx_to_result' = idx_to_result
       ELSE /\ pc' = pc
            /\ idx_to_result' = (ResultKey(i, n) :> r) @@ idx_to_result
    /\ task' = [task EXCEPT ![i].st = "collected"]
    /\ UNCHANGED <<accounts, indices_to_check, results, out_of_order, silent_met,
                   storeVars, provVars>>

\* Every future was yielded: the pool is shut down and _fetch_all_quotas
\* returns idx_to_result.
ReturnResults ==
    /\ pc = "fetching"
    /\ InState("collected") = DOMAIN task
    /\ pc' = "joined"
    /\ UNCHANGED <<accounts, indices_to_check, task, idx_to_result, results, out_of_order,
                   silent_met, storeVars, provVars>>

\* One entry of the JSON output (its quotas column, which the client's
\* filter_quotas reduces, is left out).
JsonEntry(acc, r) ==
    [email |-> r.email, alias |-> AliasOf(acc), error |-> r.error]

\* _build_json_results: one entry per selected account, in the order of
\* indices_to_check; idx_to_result[idx] raises KeyError on a missing key.
BuildJsonResults ==
    /\ pc = "joined"
    /\ IF Range(indices_to_check) \subseteq DOMAIN idx_to_result
       THEN /\ results' = [k \in 1..Len(indices_to_check) |->
                              JsonEntry(accounts[indices_to_check[k]],
                                        idx_to_result[indices_to_check[k]])]
            /\ pc' = "rendered"
       ELSE /\ results' = results
            /\ pc' = "raised"
    /\ UNCHANGED <<accounts, indices_to_check, task, idx_to_result, out_of_order,
                   silent_met, storeVars, provVars>>

BatchNext ==
    \/ FilterAndSubmit
    \/ \E i \in Positions : TaskStart(i)
    \/ \E i \in Positions : IssueCall(i)
    \/ \E i \in Positions : CallEnds(i)
    \/ \E i \in Positions : TaskFinish(i)
    \/ \E i \in Positions : AsCompleted(i)
    \/ ReturnResults
    \/ BuildJsonResults

SpecBatch == BatchInit /\ [][BatchNext]_vars

\* Scheduling: a runnable thread gets to run (the pool's workers, the
\* orchestrator), and a call that can return does return.
BatchFairness ==
    /\ \A i \in Positions : WF_vars(TaskStart(i))
    /\ \A i \in Positions : WF_vars(CallEnds(i))
    /\ \A i \in Positions : WF_vars(TaskFinish(i))
    /\ \A i \in Positions : WF_vars(AsCompleted(i))
    /\ WF_vars(ReturnResults)

SpecBatchFair == BatchInit /\ [][BatchNext]_vars /\ BatchFairness

(***************************************************************************)
(* Batch fetch orchestrator: claims.                                       *)
(***************************************************************************)
\* One outcome: a quota list and no error, or an error string and no list.
OneOutcome(r) ==
    \/ r.quotas # None /\ r.error = None
    \/ r.quotas = None /\ r.error # None

\* C4: a batch fetch over N selected accounts never aborts, and what it
\* returns holds exactly N entries, one per selected account, each of them
\* exactly one outcome (a quota list or an error string), also when every
\* account's fetch errors; the output list has N entries too.
C4_OneOutcomePerAccount ==
    /\ pc # "raised"
    /\ pc \in {"joined", "rendered"} =>
        /\ DOMAIN idx_to_result = Range(indices_to_check)
        /\ Cardinality(DOMAIN idx_to_result) = Len(indices_to_check)
        /\ \A i \in DOMAIN idx_to_result : OneOutcome(idx_to_result[i])
    /\ pc = "rendered" => Len(results) = Len(indices_to_check)

\* A batch over two or more accounts has returned, and every account's
\* fetch ended in an error.
C4_Witness ==
    /\ pc = "joined"
    /\ Len(indices_to_check) >= 2
    /\ Cardinality(DOMAIN idx_to_result) = Len(indices_to_check)
    /\ \A i \in DOMAIN idx_to_result : idx_to_result[i].error # None

\* C5: each account's result is stored under the account's own position,
\* and the k-th entry of the output is that of the k-th selected account,
\* whatever the order the tasks finished in.
C5_OutputInInputOrder ==
    /\ pc \in {"joined", "rendered"} =>
        \A i \in Range(indices_to_check) :
            /\ i \in DOMAIN idx_to_result
            /\ idx_to_result[i] = task[i].future.v
    /\ pc = "rendered" =>
        /\ Len(results) = Len(indices_to_check)
        /\ \A k \in 1..Len(results) :
            LET i == indices_to_check[k] IN
            /\ results[k].email = EmailOf(i, accounts[i])
            /\ results[k].alias = AliasOf(accounts[i])
            /\ results[k].error = task[i].future.v.error

\* The output is built, the tasks finished in another order than the input
\* order, and the accounts' outcomes differ.
C5_Witness ==
    /\ pc = "rendered"
    /\ out_of_order
    /\ Len(results) >= 2
    /\ results[1] # results[2]

\* C6: a batch fetch completes: once the tasks are submitted, whatever mix
\* of answering, failing and silent remotes they meet, _fetch_all_quotas
\* eventually returns.
C6_BatchCompletes == (pc = "fetching") ~> (pc = "joined")

\* The batch has returned although a remote stayed silent until the
\* timeout of a call and another account's fetch ended in an error.
C6_Witness ==
    /\ pc = "joined"
    /\ silent_met
    /\ \E i \in DOMAIN idx_to_result : idx_to_result[i].error # None

(***************************************************************************)
(* Providers: accounts, remotes and calls.                                 *)
(***************************************************************************)
\* DEFAULT_TIMEOUT of the OpenAI provider, in ticks.
DEFAULT_TIMEOUT == 10

NoStrategy == "<no strategy>"
NoAccount == [type |-> "none"]
NoFetch == [op |-> "none"]

\* The account_data a provider is built on: whether the credential is there
\* (apiKey, accessToken, githubToken), whether a refreshToken, a projectId
\* and enableGhCliFallback are set, and the strategy cache, cold at first.
ProvAccount(type, key, refresh_token, project_id, gh_cli) ==
    [type |-> type, key |-> key, refresh_token |-> refresh_token,
     project_id |-> project_id, gh_cli |-> gh_cli,
     strategy |-> NoStrategy, prefer_no_project |-> FALSE]

ProvAccounts ==
    { ProvAccount(t, k, FALSE, FALSE, FALSE) : t \in {"chutes", "openrouter"}, k \in BOOLEAN }
    \cup { ProvAccount("openai", k, r, FALSE, FALSE) : k, r \in BOOLEAN }
    \cup { ProvAccount("github_copilot", TRUE, FALSE, FALSE, g) : g \in BOOLEAN }
    \cup { ProvAccount("google", TRUE, TRUE, p, FALSE) : p \in BOOLEAN }

\* What the remote does with a request: it answers 200 with the data asked
\* for ("ok"), 200 with a well-formed body that holds no quota ("empty"),
\* 200 with a body that is no JSON ("malformed"), 401 or 403
\* ("unauthorized"), another error status ("http_error"), or the request
\* fails on the network ("net_error").
Responses == {"ok", "empty", "malformed", "unauthorized", "http_error", "net_error"}

\* The ticks a remote takes to answer.
Latencies == {0, 1}

\* What requests.get(..., timeout=timeout) gives its caller: a ValueError
\* for a timeout that is not positive ("bad_timeout"), the remote's answer if
\* it comes before the timeout, a Timeout exception otherwise.
Answer(resp, lat, timeout) ==
    IF timeout <= 0 THEN "bad_timeout"
    ELSE IF lat >= timeout THEN "net_error"
    ELSE resp

\* One network call: the endpoint, the timeout it was issued with, its end.
\* A request: left is the time to the deadline when it is issued.
MakeCall(ep, left, timeout, resp, lat) ==
    [ep |-> ep, left |-> left, timeout |-> timeout,
     resp |-> Answer(resp, lat, timeout)]

\* The deadline as time_remaining reads it after has_time_remaining saw
\* time left: the two read the clock one after the other, and the deadline
\* can pass between the reads (slip).
Slipped(deadline, slip) ==
    IF deadline # None /\ slip THEN Some(0) ELSE deadline

\* The time left to the deadline once a call issued with this timeout ended.
AfterCall(deadline, lat, timeout) ==
    IF deadline = None THEN None
    ELSE IF Min(lat, timeout) >= deadline.v THEN Some(0)
    ELSE Some(deadline.v - Min(lat, timeout))

\* A function's return value, and an exception it raises.
Ret(v) == [raised |-> FALSE, v |-> v]
Raise(exc) == [raised |-> TRUE, exc |-> exc]

\* The texts of the exceptions.
ChutesUnauthorized == "Unauthorized: Invalid Chutes.ai API key"
OpenRouterUnauthorized == "Unauthorized: Invalid OpenRouter API key"
TimeoutError == "Read timed out"
TimeoutValueError == "Attempted to set connect timeout to 0.0"
JSONDecodeError == "Expecting value: line 1 column 1 (char 0)"

\* "Unauthorized" in str(e)
MentionsUnauthorized(exc) == exc \in {ChutesUnauthorized, OpenRouterUnauthorized}

\* A quota dict, and an is_error quota dict.
Quota(name) == [name |-> name, is_error |-> FALSE]
ErrorQuota(name, message) == [name |-> name, is_error |-> TRUE, message |-> message]

\* What a helper of a provider hands back: its result and the calls it made.
Helper(out, calls) == [out |-> out, calls |-> calls]

(***************************************************************************)
(* ChutesProvider (src/limitwatch/providers/chutes.py).                    *)
(***************************************************************************)
\* self.account_data.get("chutesQuotaStrategy", "auto")
ChutesStrategy(a) == IF a.strategy = NoStrategy THEN "auto" ELSE a.strategy

\* _fetch_balance
ChutesFetchBalance(deadline, resp, lat, slip) ==
    IF ~HasTimeRemaining(deadline) THEN Helper(Ret(None), <<>>)
    ELSE LET now == Slipped(deadline, slip)
             c == MakeCall("balance", now, TimeRemaining(now, FETCH_TIMEOUT).v, resp, lat)
         IN  Helper(CASE c.resp = "net_error" -> Raise(TimeoutError)
                      [] c.resp = "bad_timeout" -> Raise(TimeoutValueError)
                      [] c.resp = "unauthorized" -> Raise(ChutesUnauthorized)
                      [] c.resp = "malformed" -> Raise(JSONDecodeError)
                      [] c.resp = "ok" -> Ret(Some(Quota("Chutes Credits")))
                      [] OTHER -> Ret(None),
                    <<c>>)

\* _fetch_fallback_quota
ChutesFetchFallback(deadline, resp, lat, slip) ==
    IF ~HasTimeRemaining(deadline) THEN Helper(Ret(None), <<>>)
    ELSE LET now == Slipped(deadline, slip)
             c == MakeCall("fallback", now, TimeRemaining(now, FETCH_TIMEOUT).v, resp, lat)
         IN  Helper(CASE c.resp = "net_error" -> Raise(TimeoutError)
                      [] c.resp = "bad_timeout" -> Raise(TimeoutValueError)
                      [] c.resp = "malformed" -> Raise(JSONDecodeError)
                      [] c.resp = "ok" -> Ret(Some(Quota("Chutes Quota (*)")))
                      [] OTHER -> Ret(None),
                    <<c>>)

\* _fetch_quota_list with _fetch_usages_parallel: the list holds one entry
\* when the remote has quotas to list.
ChutesFetchQuotaList(deadline, resp, usage, lat, slip) ==
    IF ~HasTimeRemaining(deadline) THEN Helper(Ret(<<>>), <<>>)
    ELSE LET now == Slipped(deadline, slip)
             t == TimeRemaining(now, FETCH_TIMEOUT).v
             c == MakeCall("list", now, t, resp, lat)
             after == AfterCall(now, lat, t)
             usage_timeout == TimeRemaining(after, FETCH_TIMEOUT).v
             u == MakeCall("quota_usage", after, usage_timeout, usage, lat)
         IN  CASE c.resp = "net_error" -> Helper(Raise(TimeoutError), <<c>>)
               [] c.resp = "bad_timeout" -> Helper(Raise(TimeoutValueError), <<c>>)
               [] c.resp = "malformed" -> Helper(Raise(JSONDecodeError), <<c>>)
               [] c.resp = "ok" ->
                    IF usage_timeout <= 0 THEN Helper(Ret(<<>>), <<c>>)
                    ELSE IF u.resp = "ok"
                    THEN Helper(Ret(<<Quota("Chutes Quota (c1)")>>), <<c, u>>)
                    ELSE Helper(Ret(<<>>), <<c, u>>)
               [] OTHER -> Helper(Ret(<<>>), <<c>>)

\* The except clause of fetch_quotas, which swallows every exception.
ChutesSwallowAll(exc) == Ret(<<>>)

\* The except clause of fetch_quotas.
ChutesOnException(exc) ==
    IF MentionsUnauthorized(exc) THEN Raise(exc) ELSE Ret(<<>>)

\* What a provider call leaves: its result, the calls it made in the order
\* it issued them, the strategy cache.
Fetched(out, calls, strategy) == [out |-> out, calls |-> calls, strategy |-> strategy]

\* ChutesProvider.fetch_quotas
ChutesFetchQuotas(a, deadline, env) ==
    IF ~a.key \/ ~HasTimeRemaining(deadline) THEN Fetched(Ret(<<>>), <<>>, a.strategy)
    ELSE
    LET strategy == ChutesStrategy(a)
        bal == ChutesFetchBalance(deadline, env.balance, env.lat, env.slip = "balance")
        fb == ChutesFetchFallback(deadline, env.fallback, env.lat, env.slip = "fallback")
        both == bal.calls \o fb.calls
        later == IF env.slip \in {"balance", "fallback"}
                 THEN Slipped(deadline, TRUE)
                 ELSE AfterCall(deadline, env.lat, TimeRemaining(deadline, FETCH_TIMEOUT).v)
    IN
    IF bal.out.raised THEN Fetched(ChutesOnException(bal.out.exc), both, a.strategy)
    ELSE IF fb.out.raised THEN Fetched(ChutesOnException(fb.out.exc), both, a.strategy)
    ELSE
    LET balance_item == bal.out.v
        fallback_quota == fb.out.v
        wants_list ==
            \/ strategy = "full"
            \/ strategy = "auto" /\ fallback_quota = None /\ HasTimeRemaining(later)
        lst == IF wants_list
               THEN ChutesFetchQuotaList(later, env.list, env.usage, env.lat,
                                         env.slip = "list")
               ELSE Helper(Ret(<<>>), <<>>)
    IN
    IF lst.out.raised
    THEN Fetched(ChutesOnException(lst.out.exc), both \o lst.calls, a.strategy)
    ELSE
    LET list_quotas == lst.out.v
        written ==
            IF wants_list
            THEN (IF list_quotas # <<>> THEN "full" ELSE a.strategy)
            ELSE IF fallback_quota # None THEN "fallback" ELSE a.strategy
        quotas ==
            (IF balance_item # None THEN <<balance_item.v>> ELSE <<>>)
            \o (IF list_quotas # <<>> THEN list_quotas
                ELSE IF fallback_quota # None THEN <<fallback_quota.v>> ELSE <<>>)
    IN  Fetched(Ret(quotas), both \o lst.calls, written)

(***************************************************************************)
(* OpenRouterProvider (src/limitwatch/providers/openrouter.py).            *)
(***************************************************************************)
\* _fetch_credits: every exception is caught.
OpenRouterFetchCredits(deadline, resp, lat, slip) ==
    IF ~HasTimeRemaining(deadline) THEN Helper(Ret(None), <<>>)
    ELSE LET now == Slipped(deadline, slip)
             c == MakeCall("credits", now, TimeRemaining(now, FETCH_TIMEOUT).v, resp, lat)
         IN  Helper(IF c.resp \in {"ok", "empty"}
                    THEN Ret(Some(Quota("OpenRouter Credits")))
                    ELSE Ret(None),
                    <<c>>)

\* The body of _fetch_key_info after the call: 401 and 403 raise a
\* ValueError, resp.json() raises a JSONDecodeError, which is a ValueError,
\* and ValueErrors are raised again; other exceptions are caught.
KeyInfoResult(c) ==
    CASE c.resp = "unauthorized" -> Raise(OpenRouterUnauthorized)
      [] c.resp = "bad_timeout" -> Raise(TimeoutValueError)
      [] c.resp = "malformed" -> Raise(JSONDecodeError)
      [] c.resp \in {"ok", "empty"} -> Ret(Some(Quota("OpenRouter Key")))
      [] OTHER -> Ret(None)

\* _fetch_key_info
OpenRouterFetchKeyInfo(deadline, resp, lat, slip) ==
    IF ~HasTimeRemaining(deadline) THEN Helper(Ret(None), <<>>)
    ELSE LET now == Slipped(deadline, slip)
             c == MakeCall("key_info", now, TimeRemaining(now, FETCH_TIMEOUT).v, resp, lat)
         IN  Helper(KeyInfoResult(c), <<c>>)

\* OpenRouterProvider.fetch_quotas
OpenRouterFetchQuotas(a, deadline, env) ==
    IF ~a.key \/ ~HasTimeRemaining(deadline) THEN Fetched(Ret(<<>>), <<>>, a.strategy)
    ELSE
    LET cr == OpenRouterFetchCredits(deadline, env.credits, env.lat, env.slip = "credits")
        later == IF env.slip = "credits"
                 THEN Slipped(deadline, TRUE)
                 ELSE AfterCall(deadline, env.lat, TimeRemaining(deadline, FETCH_TIMEOUT).v)
        ki == OpenRouterFetchKeyInfo(later, env.key_info, env.lat, env.slip = "key_info")
    IN
    IF cr.out.v # None THEN Fetched(Ret(<<cr.out.v.v>>), cr.calls, a.strategy)
    ELSE IF ki.out.raised THEN Fetched(ki.out, cr.calls \o ki.calls, a.strategy)
    ELSE IF ki.out.v # None
    THEN Fetched(Ret(<<ki.out.v.v>>), cr.calls \o ki.calls, a.strategy)
    ELSE Fetched(Ret(<<>>), cr.calls \o ki.calls, a.strategy)

(***************************************************************************)
(* OpenAIProvider (src/limitwatch/providers/openai.py).                    *)
(***************************************************************************)
\* The end of fetch_quotas: the status test, resp.json() and
\* _parse_usage_response, which always yields an entry.
OpenAIParse(c) ==
    CASE c.resp = "unauthorized" -> Ret(<<ErrorQuota("OpenAI Codex", "HTTP 401")>>)
      [] c.resp = "http_error" -> Ret(<<ErrorQuota("OpenAI Codex", "HTTP 500")>>)
      [] c.resp = "malformed" -> Raise(JSONDecodeError)
      [] c.resp = "bad_timeout" -> Raise(TimeoutValueError)
      [] c.resp = "ok" -> Ret(<<Quota("OpenAI Codex (Primary)")>>)
      [] OTHER -> Ret(<<Quota("OpenAI Codex (free)")>>)

\* OpenAIProvider.fetch_quotas: env.refresh tells whether
\* _refresh_access_token gets a token, env.retry is the answer to the
\* second request.
OpenAIFetchQuotas(a, deadline, env) ==
    IF ~a.key \/ ~HasTimeRemaining(deadline) THEN Fetched(Ret(<<>>), <<>>, a.strategy)
    ELSE
    LET now == Slipped(deadline, env.slip = "usage")
        t == TimeRemaining(now, FETCH_TIMEOUT).v
        c == MakeCall("usage", now, t, env.usage, env.lat)
        later == AfterCall(now, env.lat, t)
        then == Slipped(later, env.slip = "token_refresh")
        rf == MakeCall("token_refresh", then, DEFAULT_TIMEOUT, env.refresh, env.lat)
        latest == AfterCall(then, env.lat, DEFAULT_TIMEOUT)
        c2 == MakeCall("usage", latest, TimeRemaining(latest, FETCH_TIMEOUT).v,
                       env.retry, env.lat)
    IN
    IF c.resp = "bad_timeout"
    THEN Fetched(Raise(TimeoutValueError), <<c>>, a.strategy)
    ELSE IF c.resp = "net_error"
    THEN Fetched(Ret(<<ErrorQuota("OpenAI Codex", TimeoutError)>>), <<c>>, a.strategy)
    ELSE IF c.resp = "unauthorized" /\ a.refresh_token
    THEN IF ~HasTimeRemaining(later) THEN Fetched(Ret(<<>>), <<c>>, a.strategy)
         ELSE IF rf.resp # "ok" THEN Fetched(OpenAIParse(c), <<c, rf>>, a.strategy)
         ELSE IF c2.resp = "net_error" THEN Fetched(Ret(<<>>), <<c, rf, c2>>, a.strategy)
         ELSE Fetched(OpenAIParse(c2), <<c, rf, c2>>, a.strategy)
    ELSE Fetched(OpenAIParse(c), <<c>>, a.strategy)

(***************************************************************************)
(* GitHubCopilotProvider's personal quota and GoogleProvider's quota       *)
(* request (src/gemini_quota/providers).                                   *)
(***************************************************************************)
DEFAULT_API_TIMEOUT == 3
DEFAULT_GH_CLI_TIMEOUT == 4
DEFAULT_QUOTA_TIMEOUT == 3

\* The calls of the methods in ms, in the order given.
RECURSIVE MethodCalls(_, _)
MethodCalls(ms, env) ==
    IF ms = <<>> THEN <<>>
    ELSE <<MakeCall(Head(ms), None, DEFAULT_API_TIMEOUT, env[Head(ms)], 0)>>
         \o MethodCalls(Tail(ms), env)

\* _first_successful_method: the methods run in parallel and the first one
\* to complete with a quota wins; env.first completes first.
FirstSuccessfulMethod(ms, env) ==
    LET good == { m \in Range(ms) : env[m] = "ok" } IN
    IF good = {} THEN None
    ELSE IF env.first \in good THEN Some(env.first)
    ELSE Some(CHOOSE m \in good : TRUE)

\* _fetch_personal_copilot_quota
CopilotPersonalQuota(a, env) ==
    LET preferred == a.strategy
        direct == IF preferred \in {"internal", "billing"} THEN <<preferred>> ELSE <<>>
        raced == SelectSeq(<<"internal", "billing">>, LAMBDA m : m # preferred)
        winner == FirstSuccessfulMethod(raced, env)
        quota == <<Quota("Copilot Personal")>>
        gh == MakeCall("gh_cli", None, DEFAULT_GH_CLI_TIMEOUT, env.gh_cli, 0)
    IN
    IF direct # <<>> /\ env[preferred] = "ok"
    THEN Fetched(Ret(quota), MethodCalls(direct, env), a.strategy)
    ELSE IF winner # None
    THEN Fetched(Ret(quota), MethodCalls(direct \o raced, env), winner.v)
    ELSE IF ~a.gh_cli
    THEN Fetched(Ret(<<>>), MethodCalls(direct \o raced, env), a.strategy)
    ELSE IF gh.resp = "ok"
    THEN Fetched(Ret(quota), MethodCalls(direct \o raced, env) \o <<gh>>, "gh_cli")
    ELSE Fetched(Ret(<<>>), MethodCalls(direct \o raced, env) \o <<gh>>, a.strategy)

\* GoogleProvider._make_quota_request: what it returns or raises, its
\* calls, and _prefer_no_project afterwards.
GoogleMakeQuotaRequest(a, env) ==
    LET sc == MakeCall("scoped", None, DEFAULT_QUOTA_TIMEOUT, env.scoped, 0)
        un == MakeCall("unscoped", None, DEFAULT_QUOTA_TIMEOUT, env.unscoped, 0)
        first == IF a.project_id /\ ~a.prefer_no_project THEN <<sc>> ELSE <<>>
    IN
    IF first # <<>> /\ sc.resp = "net_error"
    THEN Fetched(Raise(TimeoutError), first, a.prefer_no_project)
    ELSE IF first # <<>> /\ sc.resp = "ok"
    THEN Fetched(Ret(<<sc.resp>>), first, FALSE)
    ELSE IF un.resp = "net_error"
    THEN Fetched(Raise(TimeoutError), first \o <<un>>,
                 IF first # <<>> THEN TRUE ELSE a.prefer_no_project)
    ELSE Fetched(Ret(<<un.resp>>), first \o <<un>>,
                 IF first # <<>> \/ un.resp = "ok" THEN TRUE ELSE a.prefer_no_project)

(***************************************************************************)
(* The providers as a state machine: one account, called again and again   *)
(* against a remote that answers each call as it likes.  acct keeps what   *)
(* the calls write to the account (chutesQuotaStrategy,                    *)
(* preferredPersonalQuotaMethod, _prefer_no_project); lastCall is the call *)
(* that has just ended, prevCall what the call before it did.              *)
(***************************************************************************)
\* What one call meets: the answers of the remote, its latency, and the
\* request, if any, before which the deadline passes between the check
\* and the read of the clock.
ChutesRemotes ==
    [balance : Responses, fallback : Responses, list : Responses,
     usage : {"ok", "http_error"}, lat : Latencies,
     slip : {"none", "balance", "fallback", "list"}]
OpenRouterRemotes ==
    [credits : Responses, key_info : Responses, lat : Latencies,
     slip : {"none", "credits", "key_info"}]
OpenAIRemotes ==
    [usage : Responses, refresh : {"ok", "http_error"}, retry : Responses,
     lat : Latencies, slip : {"none", "usage", "token_refresh"}]
CopilotRemotes ==
    [internal : {"ok", "http_error"}, billing : {"ok", "http_error"},
     gh_cli : {"ok", "http_error"}, first : {"internal", "billing"}]
GoogleRemotes ==
    [scoped : {"ok", "http_error", "net_error"},
     unscoped : {"ok", "http_error", "net_error"}]

\* The variants of a provider's strategy, in the order a cold account takes
\* them, and the requests that belong to them.
Order(a) ==
    CASE a.type = "chutes" -> <<"fallback", "full">>
      [] a.type = "github_copilot" ->
            <<"internal", "billing">> \o (IF a.gh_cli THEN <<"gh_cli">> ELSE <<>>)
      [] a.type = "google" ->
            IF a.project_id THEN <<"scoped", "unscoped">> ELSE <<"unscoped">>
      [] OTHER -> <<>>
VariantEndpoints ==
    {"fallback", "list", "internal", "billing", "gh_cli", "scoped", "unscoped"}
VariantOf(ep) == IF ep = "list" THEN "full" ELSE ep

\* The variants a call tried, in the order it issued their requests.
Tried(calls) ==
    LET sel == SelectSeq(calls, LAMBDA c : c.ep \in VariantEndpoints)
    IN  [i \in 1..Len(sel) |-> VariantOf(sel[i].ep)]

\* The requests that belong to no variant were all answered well.
Clean(calls) ==
    \A i \in 1..Len(calls) :
        calls[i].ep \notin VariantEndpoints \cup {"quota_usage"} => calls[i].resp = "ok"

\* The variants the remote answers with a quota.
ChutesWorks(env) ==
    { v \in {"fallback", "full"} :
        \/ v = "fallback" /\ env.fallback = "ok"
        \/ v = "full" /\ env.list = "ok" /\ env.usage = "ok" }
CopilotWorks(a, env) == { v \in Range(Order(a)) : env[v] = "ok" }
GoogleWorks(a, env) == { v \in Range(Order(a)) : env[v] = "ok" }

\* The preference the account holds.
CachedOf(a) ==
    IF a.type = "google"
    THEN (IF a.prefer_no_project THEN "unscoped" ELSE NoStrategy)
    ELSE a.strategy

CallRecord(op, before, after, deadline, r, works) ==
    [op |-> op, type |-> before.type, cached |-> CachedOf(before),
     recorded |-> CachedOf(after), deadline |-> deadline, calls |-> r.calls,
     works |-> works, out |-> r.out]

Summary(c) ==
    [op |-> c.op, cached |-> c.cached, recorded |-> c.recorded,
     unlimited |-> (c.deadline = None), clean |-> Clean(c.calls),
     works |-> c.works, tried |-> Tried(c.calls)]

ProvInit ==
    /\ StoreIdle
    /\ BatchIdle
    /\ acct \in ProvAccounts
    /\ lastCall = NoFetch
    /\ prevCall = NoFetch

ChutesFetch ==
    /\ acct.type = "chutes"
    /\ lastCall = NoFetch
    /\ \E deadline \in Deadlines, env \in ChutesRemotes :
          LET r == ChutesFetchQuotas(acct, deadline, env)
              after == [acct EXCEPT !.strategy = r.strategy]
          IN  /\ acct' = after
              /\ lastCall' = CallRecord("fetch_quotas", acct, after, deadline, r,
                                        ChutesWorks(env))
    /\ UNCHANGED <<prevCall, storeVars, batchVars>>

OpenRouterFetch ==
    /\ acct.type = "openrouter"
    /\ lastCall = NoFetch
    /\ \E deadline \in Deadlines, env \in OpenRouterRemotes :
          LET r == OpenRouterFetchQuotas(acct, deadline, env)
          IN  lastCall' = CallRecord("fetch_quotas", acct, acct, deadline, r, {})
    /\ UNCHANGED <<acct, prevCall, storeVars, batchVars>>

OpenAIFetch ==
    /\ acct.type = "openai"
    /\ lastCall = NoFetch
    /\ \E deadline \in Deadlines, env \in OpenAIRemotes :
          LET r == OpenAIFetchQuotas(acct, deadline, env)
          IN  lastCall' = CallRecord("fetch_quotas", acct, acct, deadline, r, {})
    /\ UNCHANGED <<acct, prevCall, storeVars, batchVars>>

CopilotFetchPersonal ==
    /\ acct.type = "github_copilot"
    /\ lastCall = NoFetch
    /\ \E env \in CopilotRemotes :
          LET r == CopilotPersonalQuota(acct, env)
              after == [acct EXCEPT !.strategy = r.strategy]
          IN  /\ acct' = after
              /\ lastCall' = CallRecord("personal_quota", acct, after, None, r,
                                        CopilotWorks(acct, env))
    /\ UNCHANGED <<prevCall, storeVars, batchVars>>

GoogleQuotaRequest ==
    /\ acct.type = "google"
    /\ lastCall = NoFetch
    /\ \E env \in GoogleRemotes :
          LET r == GoogleMakeQuotaRequest(acct, env)
              after == [acct EXCEPT !.prefer_no_project = r.strategy]
          IN  /\ acct' = after
              /\ lastCall' = CallRecord("quota_request", acct, after, None, r,
                                        GoogleWorks(acct, env))
    /\ UNCHANGED <<prevCall, storeVars, batchVars>>

\* The call is over; the next call of the account can begin.
ProvReturn ==
    /\ lastCall # NoFetch
    /\ prevCall' = Summary(lastCall)
    /\ lastCall' = NoFetch
    /\ UNCHANGED <<acct, storeVars, batchVars>>

ProvNext ==
    \/ ChutesFetch
    \/ OpenRouterFetch
    \/ OpenAIFetch
    \/ CopilotFetchPersonal
    \/ GoogleQuotaRequest
    \/ ProvReturn

SpecProv == ProvInit /\ [][ProvNext]_vars

(***************************************************************************)
(* Claims about the strategy cache and about failures of the remote.       *)
(***************************************************************************)
\* The place in order of the first variant that works, 0 if none does.
FirstWorking(order, works) ==
    IF \E k \in 1..Len(order) : order[k] \in works
    THEN CHOOSE k \in 1..Len(order) :
            order[k] \in works /\ \A j \in 1..(k - 1) : order[j] \notin works
    ELSE 0

\* Two calls in a row of an account that has its credential, neither under
\* a deadline, against a remote where the variants before B fail and B
\* works, the first call on a cold account.
ColdThenCached ==
    /\ acct.key
    /\ prevCall.op # "none"
    /\ lastCall.op # "none"
    /\ prevCall.cached = NoStrategy
    /\ prevCall.unlimited /\ prevCall.clean
    /\ Summary(lastCall).unlimited /\ Summary(lastCall).clean
    /\ lastCall.works = prevCall.works
    /\ FirstWorking(Order(acct), prevCall.works) >= 2

\* C7: on a cold account where variant A fails and variant B succeeds, the
\* first call tries both A and B and records B as the preferred variant,
\* and the second call tries B first, with no request of A before B's.
C7_SecondCallTriesPreferredFirst ==
    ColdThenCached =>
        LET k == FirstWorking(Order(acct), prevCall.works)
            B == Order(acct)[k]
        IN  /\ \A j \in 1..k : Order(acct)[j] \in Range(prevCall.tried)
            /\ prevCall.recorded = B
            /\ Tried(lastCall.calls) # <<>>
            /\ Tried(lastCall.calls)[1] = B

\* A call of an account that holds a preference, under no deadline, in
\* which the preferred variant is tried and fails and no variant gives a
\* quota.
CachedVariantFails ==
    /\ acct.key
    /\ lastCall.op # "none"
    /\ lastCall.cached # NoStrategy
    /\ lastCall.deadline = None
    /\ Clean(lastCall.calls)
    /\ lastCall.cached \in Range(Tried(lastCall.calls))
    /\ lastCall.cached \notin lastCall.works
    /\ Range(Tried(lastCall.calls)) \cap lastCall.works = {}

\* C8: a cached preference is advisory: when the preferred variant fails,
\* the call tries every remaining variant before it gives up.
C8_CacheIsAdvisory ==
    CachedVariantFails => Range(Order(acct)) \subseteq Range(Tried(lastCall.calls))

\* The answers the calls of the last fetch_quotas got.
Answers == { lastCall.calls[i].resp : i \in 1..Len(lastCall.calls) }
RemoteFailures == {"http_error", "net_error", "malformed"}

\* C9: fetch_quotas never raises for an ordinary remote failure (an error
\* status that is no rejection of the credential, a timeout or network
\* error, a malformed body); when every request fails so, the result is the
\* empty sequence or a single is_error record.
C9_NeverRaisesOnRemoteFailure ==
    (lastCall.op = "fetch_quotas" /\ Answers \subseteq RemoteFailures \cup {"ok", "empty"}) =>
        /\ ~lastCall.out.raised
        /\ (Answers # {} /\ Answers \subseteq RemoteFailures) =>
              \/ lastCall.out.v = <<>>
              \/ Len(lastCall.out.v) = 1 /\ lastCall.out.v[1].is_error

\* The endpoint that authenticates the account's key: /users/me of Chutes,
\* /auth/key of OpenRouter.
KeyEndpoints == {"balance", "key_info"}
KeyRejected ==
    /\ lastCall.op = "fetch_quotas"
    /\ \E i \in 1..Len(lastCall.calls) :
          lastCall.calls[i].ep \in KeyEndpoints /\ lastCall.calls[i].resp = "unauthorized"

\* C10: when the endpoint that authenticates the key answers 401 or 403,
\* fetch_quotas raises an Unauthorized error to its caller and returns
\* neither an empty nor a partial result.
C10_RejectedKeyRaises ==
    KeyRejected => lastCall.out.raised /\ MentionsUnauthorized(lastCall.out.exc)

\* A fetch_quotas whose key was rejected while another of its requests was
\* answered well, and which raised.
C10_Witness ==
    /\ KeyRejected
    /\ lastCall.out.raised
    /\ \E i \in 1..Len(lastCall.calls) : lastCall.calls[i].resp = "ok"

(***************************************************************************)
(* Claims about the deadline of an account's fetch.                        *)
(***************************************************************************)
\* A fetch_quotas that began when the deadline of the account had passed.
StartedExpired ==
    /\ lastCall.op = "fetch_quotas"
    /\ lastCall.deadline = Some(0)

\* C11: a fetch started after the deadline of the account has passed
\* returns at once with no quotas and issues no network call.
C11_ExpiredDeadlineNoCall ==
    StartedExpired => lastCall.calls = <<>> /\ lastCall.out = Ret(<<>>)

\* An account with its credential was fetched after its deadline.
C11_Witness ==
    /\ StartedExpired
    /\ acct.key
    /\ lastCall.calls = <<>>

\* The timeout a request takes when no deadline is near.
PerCallTimeout(ep) == IF ep = "token_refresh" THEN DEFAULT_TIMEOUT ELSE FETCH_TIMEOUT

\* C12: every request a provider issues for an account with a deadline is
\* issued with time left and with the timeout min(per_call_timeout,
\* deadline - now) of the moment it is issued; this holds for every
\* request of a call that issues several.
C12_CallsKeepToDeadline ==
    (lastCall.op = "fetch_quotas" /\ lastCall.deadline # None) =>
        \A i \in 1..Len(lastCall.calls) :
            LET c == lastCall.calls[i] IN
            /\ c.left.v > 0
            /\ c.timeout = Min(PerCallTimeout(c.ep), c.left.v)

(***************************************************************************)
(* History Store: claims about hours, queries and purges.                  *)
(***************************************************************************)
\* C13: snapshots of one (account, quota_name) recorded in different
\* calendar hours are kept one row per hour: a record call leaves every row
\* of another hour in the table and leaves exactly one row of its own hour
\* for each name it records.
C13_OneRowPerHour ==
    [][storeOp'.kind = "record" =>
          /\ \A r \in rows :
                r.hour_bucket # HourBucket(storeOp'.ts) => r \in rows'
          /\ \A n \in DOMAIN storeOp'.last :
                Cardinality(Stored(rows', storeOp'.email, n, HourBucket(storeOp'.ts))) = 1
      ]_vars

\* A name recorded in one hour has been recorded again in another hour, and
\* the table holds both rows.
C13_Witness ==
    /\ storeOp.kind = "record"
    /\ \E r1, r2 \in rows :
          /\ r1.account_email = storeOp.email /\ r2.account_email = storeOp.email
          /\ r1.quota_name = r2.quota_name
          /\ r1.quota_name \in DOMAIN storeOp.last
          /\ r2.timestamp = storeOp.ts
          /\ r1.hour_bucket # r2.hour_bucket

\* C16: purge_before(cutoff) deletes exactly the rows whose timestamp is
\* strictly before the cutoff, keeps every row at or after the cutoff, and
\* returns the number of rows it deleted.
C16_PurgeStrictlyBefore ==
    [][storeOp'.kind = "purge" =>
          /\ rows' = { r \in rows :
                         Instant(Utc(r.timestamp)) >= Instant(storeOp'.before) }
          /\ storeOp'.ret = Cardinality(rows \ rows')
      ]_vars

(***************************************************************************)
(* History Store: query_history and get_aggregation.                       *)
(***************************************************************************)
\* A filter argument left at None.
NoFilter == "<no filter>"

\* The arguments of query_history; get_aggregation takes no quota_name.
QueryArgs ==
    [since : {None} \cup { Some(d) : d \in Datetimes },
     until : {None} \cup { Some(d) : d \in Datetimes },
     account_email : {NoFilter, "a@x"},
     provider_type : {NoFilter, "google"},
     quota_name : {NoFilter, "q1"}]
AggregationArgs == { q \in QueryArgs : q.quota_name = NoFilter }

\* The WHERE clause the two functions build: each bound and filter that is
\* given adds a condition, the bounds on the texts of the timestamps.
Matches(r, q) ==
    /\ IF q.since = None THEN TRUE
       ELSE ~TextLess(RowText(r), IsoFormat(q.since.v))
    /\ IF q.until = None THEN TRUE
       ELSE ~TextLess(IsoFormat(q.until.v), RowText(r))
    /\ q.account_email # NoFilter => r.account_email = q.account_email
    /\ q.provider_type # NoFilter => r.provider_type = q.provider_type
    /\ q.quota_name # NoFilter => r.quota_name = q.quota_name

\* The place of a text among the texts of its column, in byte order.
TextRank(t) ==
    CASE t = "a@x" -> 1
      [] t = "b@x" -> 2
      [] t = "q1" -> 1
      [] t = "unknown" -> 2

\* ORDER BY timestamp DESC, account_email, quota_name
QueryBefore(r1, r2) ==
    \/ TextLess(RowText(r2), RowText(r1))
    \/ /\ RowText(r1) = RowText(r2)
       /\ \/ TextRank(r1.account_email) < TextRank(r2.account_email)
          \/ /\ r1.account_email = r2.account_email
             /\ TextRank(r1.quota_name) < TextRank(r2.quota_name)

\* The rows of S in the order of the query.
RECURSIVE OrderRows(_)
OrderRows(S) ==
    IF S = {} THEN <<>>
    ELSE LET first == CHOOSE x \in S : \A y \in S \ {x} : QueryBefore(x, y)
         IN  <<first>> \o OrderRows(S \ {first})

\* Storage.query_history
QueryHistory ==
    /\ storeOp = NoOp
    /\ \E q \in QueryArgs :
          storeOp' = [kind |-> "query", args |-> q,
                      ret |-> OrderRows({ r \in rows : Matches(r, q) })]
    /\ UNCHANGED <<rows, batchVars, provVars>>

\* GROUP BY account_email, provider_type, quota_name
GroupOf(r) == <<r.account_email, r.provider_type, r.quota_name>>

RECURSIVE SumOf(_, _)
SumOf(S, col) ==
    IF S = {} THEN 0
    ELSE LET r == CHOOSE x \in S : TRUE IN r[col] + SumOf(S \ {r}, col)
MinOf(S, col) == CHOOSE v \in { r[col] : r \in S } : \A r \in S : v <= r[col]
MaxOf(S, col) == CHOOSE v \in { r[col] : r \in S } : \A r \in S : v >= r[col]

\* The row of the result for the group whose rows are S. AVG is kept as the
\* sum and the count it divides. display_name is no column of the GROUP BY
\* and no aggregate: SQLite takes it from a row of the group, bare.
Aggregate(S, bare) ==
    LET any == CHOOSE r \in S : TRUE IN
    [account_email |-> any.account_email,
     provider_type |-> any.provider_type,
     quota_name |-> any.quota_name,
     display_name |-> bare.display_name,
     min_remaining |-> MinOf(S, "remaining_pct"),
     max_remaining |-> MaxOf(S, "remaining_pct"),
     avg_remaining |-> [sum |-> SumOf(S, "remaining_pct"), n |-> Cardinality(S)],
     min_used |-> MinOf(S, "used"),
     max_used |-> MaxOf(S, "used"),
     avg_used |-> [sum |-> SumOf(S, "used"), n |-> Cardinality(S)],
     data_points |-> Cardinality(S),
     first_seen |-> MinOf(S, "timestamp"),
     last_seen |-> MaxOf(S, "timestamp")]

\* ORDER BY account_email, quota_name
AggregationBefore(a, b) ==
    \/ TextRank(a.account_email) < TextRank(b.account_email)
    \/ /\ a.account_email = b.account_email
       /\ TextRank(a.quota_name) < TextRank(b.quota_name)

\* Storage.get_aggregation
GetAggregation ==
    /\ storeOp = NoOp
    /\ \E q \in AggregationArgs :
          LET window == { r \in rows : Matches(r, q) }
              groups == { GroupOf(r) : r \in window }
              members(g) == { r \in window : GroupOf(r) = g }
          IN  \E bare \in [groups -> window] :
              \E ret \in [1..Cardinality(groups) -> groups] :
                /\ \A g \in groups : bare[g] \in members(g)
                /\ \A i, j \in DOMAIN ret : i # j => ret[i] # ret[j]
                /\ LET out == [i \in DOMAIN ret |-> Aggregate(members(ret[i]), bare[ret[i]])]
                   IN  /\ \A i, j \in DOMAIN out : i < j => ~AggregationBefore(out[j], out[i])
                       /\ storeOp' = [kind |-> "aggregate", args |-> q, ret |-> out]
    /\ UNCHANGED <<rows, batchVars, provVars>>

QueryNext == RecordQuotas \/ QueryHistory \/ GetAggregation \/ StoreReturn

SpecQuery == StoreInit /\ [][QueryNext]_vars

\* The rows whose timestamp lies in since <= timestamp <= until, bounds
\* that are not given left open, and that pass every filter given.
InWindow(r, q) ==
    /\ IF q.since = None THEN TRUE
       ELSE Instant(q.since.v) <= Instant(Utc(r.timestamp))
    /\ IF q.until = None THEN TRUE
       ELSE Instant(Utc(r.timestamp)) <= Instant(q.until.v)
    /\ q.account_email # NoFilter => r.account_email = q.account_email
    /\ q.provider_type # NoFilter => r.provider_type = q.provider_type
    /\ q.quota_name # NoFilter => r.quota_name = q.quota_name

\* C14: query returns exactly the stored snapshots that satisfy every
\* filter given, both time bounds inclusive (since <= timestamp <= until),
\* each once, newest first by timestamp.
C14_QueryReturnsMatching ==
    storeOp.kind = "query" =>
        LET ret == storeOp.ret
            want == { r \in rows : InWindow(r, storeOp.args) }
        IN  /\ Range(ret) = want
            /\ Len(ret) = Cardinality(want)
            /\ \A i, j \in 1..Len(ret) :
                  i < j => Instant(Utc(ret[i].timestamp)) >= Instant(Utc(ret[j].timestamp))

\* C15: aggregate returns exactly one result per (account_email,
\* provider_type, quota_name) group with a row in the window, and its min,
\* max, avg and data_points are those of the group's rows in the window.
C15_AggregatePerGroup ==
    storeOp.kind = "aggregate" =>
        LET ret == storeOp.ret
            window == { r \in rows : InWindow(r, storeOp.args) }
            groups == { GroupOf(r) : r \in window }
        IN  /\ { GroupOf(ret[i]) : i \in 1..Len(ret) } = groups
            /\ Len(ret) = Cardinality(groups)
            /\ \A i \in 1..Len(ret) :
                  LET S == { r \in window : GroupOf(r) = GroupOf(ret[i]) } IN
                  /\ ret[i].min_remaining = MinOf(S, "remaining_pct")
                  /\ ret[i].max_remaining = MaxOf(S, "remaining_pct")
                  /\ ret[i].avg_remaining.sum * Cardinality(S)
                        = SumOf(S, "remaining_pct") * ret[i].avg_remaining.n
                  /\ ret[i].data_points = Cardinality(S)


(***************************************************************************)
(* Batch fetch orchestrator: the worker pool with more accounts than       *)
(* worker threads. What a task does between its start and its end is that  *)
(* of SpecBatch; here a task is one fetch that returns a quota list.       *)
(***************************************************************************)
MaxPoolAccounts == 11

PoolPositions == 0..(MaxPoolAccounts - 1)

\* Accounts files of 1..MaxPoolAccounts API-key accounts.
PoolFiles ==
    { [i \in 0..(n - 1) |-> [type |-> "chutes", email |-> NoEmail, alias |-> NoAlias]] :
        n \in 1..MaxPoolAccounts }

PoolInit ==
    /\ StoreIdle
    /\ ProvIdle
    /\ accounts \in PoolFiles
    /\ indices_to_check = <<>>
    /\ pc = "idle"
    /\ task = <<>>
    /\ idx_to_result = <<>>
    /\ results = <<>>
    /\ out_of_order = FALSE
    /\ silent_met = FALSE

\* show without flags: _filter_accounts selects every account, and
\* _fetch_all_quotas submits one task per selected account.
SubmitAll ==
    /\ pc = "idle"
    /\ LET sel == FilterAccounts(accounts, 0, NoFlag, NoFlag) IN
        /\ indices_to_check' = sel
        /\ pc' = IF sel = <<>> THEN "no_accounts" ELSE "fetching"
        /\ task' = [i \in Range(sel) |-> QueuedTask]
    /\ UNCHANGED <<accounts, idx_to_result, results, out_of_order, silent_met, storeVars,
                   provVars>>

\* A free worker thread of the ThreadPoolExecutor takes the oldest queued
\* task: fetch_account_data starts (an API-key account loads no credentials).
WorkerTakes(i) ==
    /\ pc = "fetching"
    /\ i \in InState("queued")
    /\ \A j \in InState("queued") : i <= j
    /\ Cardinality(Busy) < PoolWorkers(Len(indices_to_check))
    /\ LoadCredentials(i, accounts[i], TRUE, "ok") = None
    /\ task' = [task EXCEPT ![i].st = "running"]
    /\ UNCHANGED <<accounts, indices_to_check, pc, idx_to_result, results, out_of_order,
                   silent_met, storeVars, provVars>>

\* fetch_account_data ends with the list the fetch returned; the worker
\* thread is free again.
WorkerFinishes(i) ==
    /\ i \in InState("running")
    /\ task' = [task EXCEPT ![i].st = "done",
                            ![i].future =
                                Some(FetchAndCatch(i, accounts[i],
                                                   [kind |-> "return",
                                                    quotas |-> <<"q1">>]))]
    /\ out_of_order' = (out_of_order \/ OthersPending(i))
    /\ UNCHANGED <<accounts, indices_to_check, pc, idx_to_result, results, silent_met,
                   storeVars, provVars>>

PoolNext ==
    \/ SubmitAll
    \/ \E i \in PoolPositions : WorkerTakes(i)
    \/ \E i \in PoolPositions : WorkerFinishes(i)
    \/ \E i \in PoolPositions : AsCompleted(i)
    \/ ReturnResults

SpecPool == PoolInit /\ [][PoolNext]_vars

\* C17: at every moment of a batch fetch over N accounts, at most
\* min(N, 10) of the per-account tasks are executing, and the pool holds
\* exactly one task per account.
C17_BoundedWorkers ==
    pc \in {"fetching", "joined"} =>
        /\ Cardinality(Busy) <= Min(Cardinality(DOMAIN accounts), 10)
        /\ DOMAIN task = DOMAIN accounts
        /\ Cardinality(DOMAIN task) = Len(indices_to_check)

\* More than ten accounts: ten tasks are executing, and a task waits for a
\* worker although it was submitted.
C17_Witness ==
    /\ pc = "fetching"
    /\ Cardinality(DOMAIN accounts) > 10
    /\ Cardinality(Busy) = 10
    /\ InState("queued") # {}


(***************************************************************************)
(* GitHubCopilotProvider.fetch_quotas with an organization                 *)
(* (src/gemini_quota/providers/github_copilot.py): the personal quota and  *)
(* the organization's quota, the latter with its fallbacks.                *)
(***************************************************************************)
OrgName == "GitHub Copilot Org (myorg)"
OrgNotFound == "Copilot Business/Enterprise not found or disabled for this org"
OrgNoPermission ==
    "Insufficient permissions (requires org owner or manage_billing:copilot scope)"
OrgHttpError == "Could not fetch org quota (HTTP 500)"
OrgException == "Error fetching org quota"

\* _build_org_error
BuildOrgError(message) == ErrorQuota(OrgName, message)

\* What the remote does with the requests of the organization's quota:
\* /orgs/{org}/copilot/billing answers 200 ("ok", or "malformed" with a body
\* that is not the billing document), 403 ("forbidden"), 404 ("not_found"),
\* another status, or fails on the network; /user and
\* /orgs/{org}/members/{user}/copilot likewise; copilot_internal/user lists
\* the organization, does not list it, or is not answered with 200. race is
\* the fallback that completes first. The other fields are the remote of the
\* personal quota.
CopilotOrgRemotes ==
    [org : {"ok", "malformed", "forbidden", "not_found", "http_error", "net_error"},
     user : {"ok", "http_error"},
     member : {"ok", "http_error", "net_error"},
     org_internal : {"listed", "unlisted", "http_error"},
     race : {"member", "internal"},
     internal : {"ok", "http_error"}, billing : {"ok", "http_error"},
     gh_cli : {"ok", "http_error"}, first : {"internal", "billing"}]

\* The accounts: with or without githubToken, organization and gh CLI
\* fallback, no preferred method yet.
CopilotOrgAccounts ==
    { ProvAccount("github_copilot", k, FALSE, FALSE, g) @@ [organization |-> o] :
        k \in BOOLEAN, g \in BOOLEAN, o \in BOOLEAN }

\* _fetch_member_copilot_quota: /user for the login, then the member
\* endpoint; an exception is swallowed.
CopilotFetchMemberQuota(env) ==
    LET u == MakeCall("user", None, DEFAULT_API_TIMEOUT, env.user, 0)
        m == MakeCall("member", None, DEFAULT_API_TIMEOUT, env.member, 0)
    IN
    IF u.resp # "ok" THEN Helper(None, <<u>>)
    ELSE IF m.resp = "ok" THEN Helper(Some(Quota(OrgName)), <<u, m>>)
    ELSE Helper(None, <<u, m>>)

\* _fetch_org_from_copilot_internal_user
CopilotOrgFromInternalUser(env) ==
    LET c == MakeCall("org_internal", None, DEFAULT_API_TIMEOUT, env.org_internal, 0) IN
    IF c.resp = "listed" THEN Helper(Some(Quota(OrgName)), <<c>>)
    ELSE Helper(None, <<c>>)

\* _try_org_fallbacks without the error dict at its end.
OrgFallbacksOrNone(status, env) ==
    LET member == CopilotFetchMemberQuota(env)
        internal == CopilotOrgFromInternalUser(env)
        first == IF env.race = "member" THEN member ELSE internal
        second == IF env.race = "member" THEN internal ELSE member
    IN
    IF first.out # None THEN Helper(first.out, member.calls \o internal.calls)
    ELSE Helper(second.out, member.calls \o internal.calls)

\* _try_org_fallbacks: the member and the internal endpoint run in parallel
\* and the first to complete with a quota wins; without one, the error dict
\* of the status.
CopilotTryOrgFallbacks(status, env) ==
    LET member == CopilotFetchMemberQuota(env)
        internal == CopilotOrgFromInternalUser(env)
        first == IF env.race = "member" THEN member ELSE internal
        second == IF env.race = "member" THEN internal ELSE member
        calls == member.calls \o internal.calls
    IN
    IF first.out # None THEN Helper(first.out, calls)
    ELSE IF second.out # None THEN Helper(second.out, calls)
    ELSE IF status = "not_found" THEN Helper(Some(BuildOrgError(OrgNotFound)), calls)
    ELSE Helper(Some(BuildOrgError(OrgNoPermission)), calls)

\* _fetch_org_copilot_quota: try / except Exception around all of it.
CopilotFetchOrgQuota(env) ==
    LET c == MakeCall("org_billing", None, DEFAULT_API_TIMEOUT, env.org, 0)
        fb == CopilotTryOrgFallbacks(c.resp, env)
    IN
    CASE c.resp = "ok" -> Helper(Some(Quota(OrgName)), <<c>>)
      [] c.resp \in {"forbidden", "not_found"} -> Helper(fb.out, <<c>> \o fb.calls)
      [] c.resp = "http_error" -> Helper(Some(BuildOrgError(OrgHttpError)), <<c>>)
      [] OTHER -> Helper(Some(BuildOrgError(OrgException)), <<c>>)

\* GitHubCopilotProvider.fetch_quotas
CopilotFetchQuotas(a, env) ==
    LET personal == CopilotPersonalQuota(a, env)
        org == CopilotFetchOrgQuota(env)
    IN
    IF ~a.key THEN Fetched(Ret(<<>>), <<>>, a.strategy)
    ELSE IF a.organization
    THEN Fetched(Ret(personal.out.v \o (IF org.out # None THEN <<org.out.v>> ELSE <<>>)),
                 personal.calls \o org.calls, personal.strategy)
    ELSE Fetched(Ret(IF personal.out.v # <<>> THEN personal.out.v
                     ELSE <<Quota("Copilot Personal")>>),
                 personal.calls, personal.strategy)

CopilotOrgInit ==
    /\ StoreIdle
    /\ BatchIdle
    /\ acct \in CopilotOrgAccounts
    /\ lastCall = NoFetch
    /\ prevCall = NoFetch

\* fetch_account_data of a Copilot account: the provider's fetch_quotas
\* inside the task's try / except. The record keeps the remote met, what
\* the personal quota alone gave, and the tuple the task returns.
CopilotFetch ==
    /\ acct.type = "github_copilot"
    /\ lastCall = NoFetch
    /\ \E env \in CopilotOrgRemotes :
          LET r == CopilotFetchQuotas(acct, env)
              after == [acct EXCEPT !.strategy = r.strategy]
              fetch == IF r.out.raised THEN [kind |-> "raise", msg |-> r.out.exc]
                       ELSE [kind |-> "return", quotas |-> r.out.v]
          IN  /\ acct' = after
              /\ lastCall' =
                    CallRecord("copilot_fetch_quotas", acct, after, None, r,
                               CopilotWorks(acct, env))
                    @@ [remote |-> env,
                        organization |-> acct.organization,
                        key |-> acct.key,
                        personal |-> CopilotPersonalQuota(acct, env).out.v,
                        returned |-> FetchAndCatch(0, [email |-> "a@x"], fetch)]
    /\ UNCHANGED <<prevCall, storeVars, batchVars>>

CopilotOrgNext == CopilotFetch \/ ProvReturn

SpecCopilotOrg == CopilotOrgInit /\ [][CopilotOrgNext]_vars

\* The billing endpoint of the organization answered 403 or 404, and no
\* fallback gave a quota.
OrgPermissionFailure ==
    /\ lastCall.op = "copilot_fetch_quotas"
    /\ lastCall.key
    /\ lastCall.organization
    /\ lastCall.remote.org \in {"forbidden", "not_found"}
    /\ ~(lastCall.remote.user = "ok" /\ lastCall.remote.member = "ok")
    /\ lastCall.remote.org_internal # "listed"

\* C18: a permission or configuration failure of the organization's quota
\* (403 or 404 of the billing endpoint, no working fallback) does not raise:
\* fetch_quotas returns the account's personal records followed by one
\* is_error record with the message of the status, and the account's task
\* returns that list and no error string.
C18_PermissionFailureIsRecord ==
    OrgPermissionFailure =>
        /\ ~lastCall.out.raised
        /\ lastCall.out.v =
              lastCall.personal \o
              <<ErrorQuota(OrgName,
                           IF lastCall.remote.org = "not_found" THEN OrgNotFound
                           ELSE OrgNoPermission)>>
        /\ ~lastCall.returned.raised
        /\ lastCall.returned.error = None
        /\ lastCall.returned.quotas = Some(lastCall.out.v)

\* The billing endpoint answered 403, no fallback worked, and the personal
\* quota was fetched: the list holds it and the error record.
C18_Witness ==
    /\ OrgPermissionFailure
    /\ lastCall.remote.org = "forbidden"
    /\ lastCall.personal # <<>>
    /\ Len(lastCall.out.v) = 2
    /\ lastCall.out.v[2].is_error


\* The variant a quota entry comes from.
VariantOfQuota(q) ==
    CASE q.name = "Chutes Quota (*)" -> "fallback"
      [] q.name = "Chutes Quota (c1)" -> "full"
      [] q.name = "OpenRouter Credits" -> "credits"
      [] q.name = "OpenRouter Key" -> "key_info"
      [] OTHER -> NoStrategy

\* The variants that produced the data a call returned: for Chutes and
\* OpenRouter those of the entries of the list, for Google's quota request
\* that of the request whose response is returned.
Produced(c) ==
    IF c.out.raised THEN {}
    ELSE IF c.type = "google"
    THEN { c.calls[i].ep : i \in { j \in DOMAIN c.calls :
                                      j = Len(c.calls) /\ c.calls[j].resp = "ok" } }
    ELSE { VariantOfQuota(c.out.v[i]) : i \in DOMAIN c.out.v } \ {NoStrategy}

\* The variant the account's cache names after the call; Google's flag
\* _prefer_no_project names the unscoped request when set, the scoped one
\* when not.
RecordedVariant(c) ==
    IF c.type = "google" /\ c.recorded = NoStrategy THEN "scoped" ELSE c.recorded

\* C19: after a successful fetch (Chutes, OpenRouter, Google's quota
\* request) the account's cache names the variant that produced the data
\* the fetch returned.
C19_CacheNamesProducer ==
    (/\ lastCall.op \in {"fetch_quotas", "quota_request"}
     /\ lastCall.type \in {"chutes", "openrouter", "google"}
     /\ Produced(lastCall) # {})
        => RecordedVariant(lastCall) \in Produced(lastCall)


(***************************************************************************)
(* HistoryManager (src/limitwatch/history.py): the time range of a query.  *)
(* A text is the sequence of its parts: a decimal digit, a letter, the     *)
(* date and time of an ISO text, its UTC offset.                           *)
(***************************************************************************)
\* Largest N of a relative bound <N>d or <N>h.
MaxCount == 10

TicksPerDay == 24 * TicksPerHour

Digit(n) == [digit |-> n]
Ch(c) == [ch |-> c]
WallPart(w) == [wall |-> w]
OffPart(o) == [off |-> o]

\* str(n)
RECURSIVE Decimal(_)
Decimal(n) ==
    IF n < 10 THEN <<Digit(n)>> ELSE Decimal(n \div 10) \o <<Digit(n % 10)>>

\* The bounds given as --since and --until: nothing, an ISO text with its
\* offset written out or, for UTC, as Z, <N>d, <N>h, and texts that are
\* neither.
NoBound == [kind |-> "empty", text |-> <<>>]
IsoBounds ==
    { [kind |-> "iso", dt |-> d, text |-> <<WallPart(d.wall), OffPart(d.off)>>] :
        d \in Datetimes }
    \cup { [kind |-> "iso", dt |-> Utc(w), text |-> <<WallPart(w), Ch("Z")>>] :
             w \in Times }
RelativeBounds ==
    { [kind |-> "relative", n |-> n, unit |-> u, text |-> Decimal(n) \o <<Ch(u)>>] :
        n \in 0..MaxCount, u \in {"d", "h"} }
OtherBounds ==
    { [kind |-> "other", text |-> t] :
        t \in { <<Ch("d")>>, <<Ch("x"), Ch("d")>>, <<Digit(7), Ch("w")>>,
                <<WallPart(0), OffPart(0), Ch("h")>> } }
SinceBounds == {NoBound} \cup IsoBounds \cup RelativeBounds \cup OtherBounds
UntilBounds ==
    {NoBound} \cup { b \in IsoBounds : b.dt.wall = MaxTime }
    \cup { b \in RelativeBounds : b.n = 0 } \cup { b \in OtherBounds : Len(b.text) = 1 }

\* TIME_PRESETS, in ticks.
TIME_PRESETS ==
    [p \in {"24h", "7d", "30d", "90d"} |->
        CASE p = "24h" -> 24 * TicksPerHour
          [] p = "7d" -> 7 * TicksPerDay
          [] p = "30d" -> 30 * TicksPerDay
          [] p = "90d" -> 90 * TicksPerDay]

NoPreset == "<no preset>"
Presets == {NoPreset, "24h", "7d", "30d", "90d", "1y"}

\* The arguments of get_history (the filters, which it hands on, are not
\* given): with a preset the bounds are few.
HistoryArgs ==
    { a \in [preset : Presets, since : SinceBounds, until : UntilBounds] :
        a.preset # NoPreset => a.since \in UntilBounds }

\* parse_time_preset
ParseTimePreset(preset, now) ==
    IF preset \in DOMAIN TIME_PRESETS THEN Some(Utc(now - TIME_PRESETS[preset]))
    ELSE None

\* value.replace("Z", "+00:00")
ReplaceZ(value) ==
    [i \in 1..Len(value) |-> IF value[i] = Ch("Z") THEN OffPart(0) ELSE value[i]]

\* datetime.fromisoformat: None for its ValueError.
FromIsoFormat(value) ==
    IF /\ Len(value) = 2
       /\ DOMAIN value[1] = {"wall"}
       /\ DOMAIN value[2] = {"off"}
    THEN Some([wall |-> value[1].wall, off |-> value[2].off])
    ELSE None

\* value[:-1].isdigit()
IsDigit(s) == s # <<>> /\ \A i \in 1..Len(s) : DOMAIN s[i] = {"digit"}

\* The number of which only the last digit is read.
LastDigitOf(s) == s[Len(s)].digit

\* int(value[:-1])
RECURSIVE IntOf(_)
IntOf(s) ==
    IF s = <<>> THEN 0
    ELSE 10 * IntOf(SubSeq(s, 1, Len(s) - 1)) + s[Len(s)].digit

\* value.endswith(c) and value[:-1].isdigit()
IsRelative(value, c) ==
    /\ value # <<>>
    /\ value[Len(value)] = Ch(c)
    /\ IsDigit(SubSeq(value, 1, Len(value) - 1))

\* parse_datetime
ParseDatetime(value, now) ==
    IF value = <<>> THEN None
    ELSE IF FromIsoFormat(ReplaceZ(value)) # None THEN FromIsoFormat(ReplaceZ(value))
    ELSE IF IsRelative(value, "d")
    THEN Some(Utc(now - IntOf(SubSeq(value, 1, Len(value) - 1)) * TicksPerDay))
    ELSE IF IsRelative(value, "h")
    THEN Some(Utc(now - IntOf(SubSeq(value, 1, Len(value) - 1)) * TicksPerHour))
    ELSE None

\* HistoryManager.get_history: the bounds are resolved, each with the clock
\* as it reads when it is parsed, and handed to Storage.query_history.
GetHistory ==
    /\ storeOp = NoOp
    /\ \E a \in HistoryArgs, now \in Times, later \in 0..1 :
          LET start_time ==
                  IF a.preset # NoPreset THEN ParseTimePreset(a.preset, now)
                  ELSE IF a.since.text # <<>> THEN ParseDatetime(a.since.text, now)
                  ELSE None
              end_time ==
                  IF a.until.text # <<>> THEN ParseDatetime(a.until.text, now + later)
                  ELSE None
              q == [since |-> start_time, until |-> end_time,
                    account_email |-> NoFilter, provider_type |-> NoFilter,
                    quota_name |-> NoFilter]
          IN  storeOp' = [kind |-> "get_history", args |-> a,
                          now_since |-> now, now_until |-> now + later,
                          start_time |-> start_time, end_time |-> end_time,
                          ret |-> OrderRows({ r \in rows : Matches(r, q) })]
    /\ UNCHANGED <<rows, batchVars, provVars>>

HistoryNext == RecordQuotas \/ GetHistory \/ StoreReturn

SpecHistory == StoreInit /\ [][HistoryNext]_vars

\* The ticks of <N>d and <N>h.
TicksOf(n, unit) == IF unit = "d" THEN n * 24 * TicksPerHour ELSE n * TicksPerHour

\* What a bound is to resolve to, read at the instant now.
Resolved(b, now, got) ==
    CASE b.kind = "relative" -> got = Some(Utc(now - TicksOf(b.n, b.unit)))
      [] b.kind = "iso" -> got # None /\ Instant(got.v) = Instant(b.dt)
      [] OTHER -> TRUE

\* C20: a preset resolves to now minus its duration, <N>d and <N>h to N days
\* and N hours before now, now being the clock of the query and not a
\* timestamp of the store, and an ISO bound to the instant it names.
C20_BoundsResolveAtQueryTime ==
    storeOp.kind = "get_history" =>
        LET a == storeOp.args IN
        /\ a.preset = "24h" => storeOp.start_time = Some(Utc(storeOp.now_since - TicksOf(24, "h")))
        /\ a.preset = "7d" => storeOp.start_time = Some(Utc(storeOp.now_since - TicksOf(7, "d")))
        /\ a.preset = "30d" => storeOp.start_time = Some(Utc(storeOp.now_since - TicksOf(30, "d")))
        /\ a.preset = "90d" => storeOp.start_time = Some(Utc(storeOp.now_since - TicksOf(90, "d")))
        /\ a.preset = NoPreset => Resolved(a.since, storeOp.now_since, storeOp.start_time)
        /\ Resolved(a.until, storeOp.now_until, storeOp.end_time)

\* A query with the bound 10h, issued later than the timestamps of the rows
\* in the store, and with an ISO upper bound.
C20_Witness ==
    /\ storeOp.kind = "get_history"
    /\ storeOp.args.preset = NoPreset
    /\ storeOp.args.since.kind = "relative"
    /\ storeOp.args.since.n = 10
    /\ storeOp.args.since.unit = "h"
    /\ storeOp.args.until.kind = "iso"
    /\ rows # {}
    /\ \A r \in rows : r.timestamp < storeOp.now_since
    /\ storeOp.ret # <<>>


(***************************************************************************)
(* The numbers of the quota dicts. A percentage is the fraction num / den  *)
(* with den > 0, a balance is counted in thousandths of a dollar.          *)
(***************************************************************************)
Pct(num, den) == [num |-> num, den |-> den]

\* max(0, x) and min(100, x) of a fraction.
AtLeastZero(p) == IF p.num < 0 THEN Pct(0, 1) ELSE p
AtMostHundred(p) == IF p.num > 100 * p.den THEN Pct(100, 1) ELSE p

\* f"{balance:.2f}": dollars, tenths and hundredths, the thousandths
\* rounded (the balances of the model are no ties).
Format2f(balance) ==
    LET cents == (balance + 5) \div 10
    IN  <<cents \div 100, (cents \div 10) % 10, cents % 10>>

\* The balances /users/me answers with.
Balances == {-1000, 0, 4, 5000, 5004, 12349}

\* The JSON document of /users/me/quota_usage/me: "quota", "limit" and
\* "used" are numbers or missing.
UsageDatas ==
    [quota : {None, Some(0), Some(300)},
     limit : {None, Some(0), Some(300), Some(10)},
     used : {None, Some(-10), Some(50), Some(300), Some(400)}]

\* data.get("quota") or data.get("limit") or 0
LimitOf(data) ==
    IF data.quota # None /\ data.quota.v # 0 THEN data.quota.v
    ELSE IF data.limit # None /\ data.limit.v # 0 THEN data.limit.v
    ELSE 0

\* data.get("used", 0)
UsedOf(data) == IF data.used = None THEN 0 ELSE data.used.v

\* The share of the limit that is used, as the percentage of the dict.
UsedShare(chute_id, limit, used) ==
    IF limit <= 0 THEN None
    ELSE Some([name |-> <<"Chutes Quota", chute_id>>, is_error |-> FALSE,
               remaining_pct |-> Pct(used * 100, limit),
               remaining |-> limit - used, limit |-> limit, used |-> used])

\* _build_quota_result
BuildQuotaResult(chute_id, limit, used) ==
    IF limit <= 0 THEN None
    ELSE Some([name |-> <<"Chutes Quota", chute_id>>, is_error |-> FALSE,
               remaining_pct |->
                   LET share == AtLeastZero(Pct(limit - used, limit))
                   IN  Pct(share.num * 100, share.den),
               remaining |-> limit - used, limit |-> limit, used |-> used])

\* _fetch_balance on a 200 response: the credits item of a positive balance.
BalanceItem(balance) ==
    IF balance > 0
    THEN Some([name |-> "Chutes Credits", is_error |-> FALSE,
               display_name |-> <<"Credits: $">> \o Format2f(balance),
               remaining_pct |-> Pct(100, 1), show_progress |-> FALSE])
    ELSE None

\* _fetch_fallback_quota on a 200 response
FallbackQuota(data) == BuildQuotaResult("*", LimitOf(data), UsedOf(data))

\* ChutesProvider.fetch_quotas of an account with no strategy yet, both
\* endpoints answering 200: the credits item, then the fallback's quota.
ChutesResults(balance, data) ==
    (IF BalanceItem(balance) # None THEN <<BalanceItem(balance).v>> ELSE <<>>)
    \o (IF FallbackQuota(data) # None THEN <<FallbackQuota(data).v>> ELSE <<>>)

QuotaMathInit ==
    /\ StoreIdle
    /\ BatchIdle
    /\ acct \in { a \in ProvAccounts :
                    a.key /\ a.type \in {"chutes", "github_copilot", "openai"} }
    /\ lastCall = NoFetch
    /\ prevCall = NoFetch

\* ChutesProvider.fetch_quotas against a remote that answers with numbers.
ChutesNumbers ==
    /\ acct.type = "chutes"
    /\ lastCall = NoFetch
    /\ \E balance \in Balances, data \in UsageDatas :
          lastCall' = [op |-> "numbers", type |-> "chutes", balance |-> balance,
                       data |-> data, out |-> ChutesResults(balance, data)]
    /\ UNCHANGED <<acct, prevCall, storeVars, batchVars>>

\* The call is over.
NumbersReturn ==
    /\ lastCall # NoFetch
    /\ lastCall' = NoFetch
    /\ UNCHANGED <<acct, prevCall, storeVars, batchVars>>


\* The seat numbers of a Copilot billing document.
SeatCounts == [total : {0, 10}, active : {-1, 0, 4, 10, 12}]

\* _seat_percentages: (remaining_pct, used_pct)
SeatPercentages(total, active) ==
    IF total <= 0 THEN <<Pct(100, 1), Pct(0, 1)>>
    ELSE <<Pct((total - active) * 100, total),
           AtLeastZero(AtMostHundred(Pct(active * 100, total)))>>

\* _try_personal_via_billing and _parse_org_billing on a 200 response.
SeatQuota(name, seats) ==
    LET p == SeatPercentages(seats.total, seats.active) IN
    [name |-> name, is_error |-> FALSE, remaining_pct |-> p[1], used_pct |-> p[2],
     remaining |-> seats.total - seats.active, limit |-> seats.total,
     used |-> seats.active]

\* GitHubCopilotProvider.fetch_quotas of an account with an organization,
\* both billing endpoints answering 200.
CopilotNumbers ==
    /\ acct.type = "github_copilot"
    /\ lastCall = NoFetch
    /\ \E personal \in SeatCounts, org \in SeatCounts :
          lastCall' = [op |-> "numbers", type |-> "github_copilot",
                       personal |-> personal, org |-> org,
                       out |-> <<SeatQuota("GitHub Copilot Personal", personal),
                                 SeatQuota(OrgName, org)>>]
    /\ UNCHANGED <<acct, prevCall, storeVars, batchVars>>

\* The /wham/usage document: the used_percent of the primary window, if
\* there is one, and the credits, if the account has some.
UsageDocuments ==
    [primary : {None} \cup { Some(u) : u \in {-5, 0, 40, 100, 150} },
     credits : {None} \cup { Some([balance |-> b, unlimited |-> u]) :
                                b \in {-20, 0, 30, 250}, u \in BOOLEAN }]

\* _parse_window
ParseWindow(used_percent) ==
    [name |-> "OpenAI Codex Primary", is_error |-> FALSE,
     remaining_pct |-> AtLeastZero(AtMostHundred(Pct(100 - used_percent, 1))),
     used_pct |-> Pct(used_percent, 1)]

\* The credits entry of _parse_usage_response.
CreditsQuota(c) ==
    [name |-> "OpenAI Credits", is_error |-> FALSE,
     remaining_pct |-> IF c.unlimited THEN Pct(100, 1)
                       ELSE AtMostHundred(Pct(c.balance, 1)),
     used_pct |-> IF c.unlimited THEN Pct(0, 1)
                  ELSE AtLeastZero(Pct(100 - c.balance, 1))]

\* _parse_usage_response: the entry of the free tier if nothing was parsed.
ParseUsageResponse(doc) ==
    LET parsed ==
            (IF doc.primary # None THEN <<ParseWindow(doc.primary.v)>> ELSE <<>>)
            \o (IF doc.credits # None THEN <<CreditsQuota(doc.credits.v)>> ELSE <<>>)
    IN  IF parsed # <<>> THEN parsed
        ELSE <<[name |-> "OpenAI Codex", is_error |-> FALSE,
                remaining_pct |-> Pct(100, 1), used_pct |-> Pct(0, 1)]>>

\* OpenAIProvider.fetch_quotas, the usage endpoint answering 200.
OpenAINumbers ==
    /\ acct.type = "openai"
    /\ lastCall = NoFetch
    /\ \E doc \in UsageDocuments :
          lastCall' = [op |-> "numbers", type |-> "openai", doc |-> doc,
                       out |-> ParseUsageResponse(doc)]
    /\ UNCHANGED <<acct, prevCall, storeVars, batchVars>>

QuotaMathNext == ChutesNumbers \/ CopilotNumbers \/ OpenAINumbers \/ NumbersReturn

SpecQuotaMath == QuotaMathInit /\ [][QuotaMathNext]_vars

InRange(p) == 0 <= p.num /\ p.num <= 100 * p.den

\* C27: every non-error record a provider returns has remaining_pct within
\* 0 to 100 and, where it has one, used_pct within 0 to 100, whatever
\* numbers the remote answered with.
C27_PercentagesInRange ==
    lastCall.op = "numbers" =>
        \A i \in DOMAIN lastCall.out :
            LET q == lastCall.out[i] IN
            ~q.is_error =>
                /\ InRange(q.remaining_pct)
                /\ "used_pct" \in DOMAIN q => InRange(q.used_pct)


\* C22: the deadline is each account's own and the pool waits for no one
\* account before it takes the results of another: once an account's fetch
\* has ended with its quotas, the batch returns with exactly these quotas
\* under the account's position, whatever the other accounts' remotes do
\* (answer late, stay silent until the timeout, fail).
C22_FastAccountReported ==
    \A i \in Positions :
        (/\ i \in DOMAIN task
         /\ task[i].st = "done"
         /\ task[i].future.v.quotas # None)
        ~> (/\ pc = "joined"
            /\ i \in DOMAIN idx_to_result
            /\ idx_to_result[i] = task[i].future.v
            /\ idx_to_result[i].quotas # None)

\* The second account's quotas are collected while the first account's
\* fetch still waits for a silent remote.
C22_Witness ==
    /\ pc = "fetching"
    /\ DOMAIN task = {0, 1}
    /\ task[0].st = "blocked"
    /\ task[0].call.silent
    /\ task[1].st = "collected"
    /\ idx_to_result[1].quotas = Some(<<"q1">>)


(***************************************************************************)
(* Batch fetch with the providers' strategy caches: every task runs the    *)
(* provider of its account, which writes the strategy it found to the      *)
(* account_data it was built on.                                           *)
(***************************************************************************)
\* The account_data of the accounts file with their strategy caches
\* (chutesQuotaStrategy, preferredPersonalQuotaMethod), cold or set.
CachedAccountDatas ==
    { [type |-> "chutes", email |-> NoEmail, alias |-> NoAlias, strategy |-> s] :
        s \in {NoStrategy, "full"} }
    \cup { [type |-> "github_copilot", email |-> "a@x", alias |-> "work", strategy |-> s] :
             s \in {NoStrategy, "internal"} }
CachedAccountsFiles == [0..(MaxAccounts - 1) -> CachedAccountDatas]

\* The account_data every task's provider would share: the first account's.
FirstAccount(idx) == 0

\* QuotaClient(acc_data, credentials=creds): the provider is built on the
\* account_data of the task's own account, and writes in place.
ProviderAccount(idx) == idx

\* The provider's view of an account_data.
AsProvAccount(acc) ==
    [ProvAccount(acc.type, TRUE, FALSE, FALSE, FALSE) EXCEPT !.strategy = acc.strategy]

CacheInit ==
    /\ StoreIdle
    /\ ProvIdle
    /\ accounts \in CachedAccountsFiles
    /\ indices_to_check = <<>>
    /\ pc = "idle"
    /\ task = <<>>
    /\ idx_to_result = <<>>
    /\ results = <<>>
    /\ out_of_order = FALSE
    /\ silent_met = FALSE

\* client.fetch_quotas() inside fetch_account_data: the provider's fetch
\* reads and writes the strategy of its account_data, and the task ends
\* with what the fetch returned or raised.
ProviderFetch(i) ==
    /\ i \in InState("running")
    /\ \E r \in LET a == AsProvAccount(accounts[ProviderAccount(i)])
               IN  IF accounts[i].type = "chutes"
                   THEN { ChutesFetchQuotas(a, task[i].deadline, env) : env \in ChutesRemotes }
                   ELSE { CopilotPersonalQuota(a, env) : env \in CopilotRemotes } :
          LET outcome == IF r.out.raised THEN [kind |-> "raise", msg |-> r.out.exc]
                         ELSE [kind |-> "return", quotas |-> r.out.v]
          IN  /\ accounts' = [accounts EXCEPT ![ProviderAccount(i)].strategy = r.strategy]
              /\ task' = [task EXCEPT ![i] = [QueuedTask EXCEPT
                            !.st = "done",
                            !.future = Some(FetchAndCatch(i, accounts[i], outcome))]]
    /\ out_of_order' = (out_of_order \/ OthersPending(i))
    /\ UNCHANGED <<indices_to_check, pc, idx_to_result, results, silent_met, storeVars,
                   provVars>>

CacheNext ==
    \/ FilterAndSubmit
    \/ \E i \in Positions : TaskStart(i)
    \/ \E i \in Positions : ProviderFetch(i)
    \/ \E i \in Positions : AsCompleted(i)
    \/ ReturnResults

SpecCache == CacheInit /\ [][CacheNext]_vars

ExecuteAutocommit(file, view) == view

\* conn.execute("INSERT OR REPLACE ...") on a connection of
\* sqlite3.connect(db_path): the statement opens a transaction when none is
\* open and the file keeps the committed table.
Execute(file, view) == file

\* conn.commit()
Commit(file, view) == view

\* A handler that commits what was written before the exception.
CommitOnError(file, view) == view

\* conn.rollback()
Rollback(file, view) == file

\* with self._get_connection() as conn: the connection is open, nothing
\* is written yet.
BeginRecord ==
    /\ storeOp = NoOp
    /\ \E caller \in Callers, quotas \in QuotaLists, ts \in Times :
        /\ Cardinality(RecordLoop(rows, 0, caller[1], caller[2], quotas, ts)[1]) <= MaxRows
        /\ storeOp' = [kind |-> "recording", email |-> caller[1], ptype |-> caller[2],
                       ts |-> ts, quotas |-> quotas, rest |-> quotas, before |-> rows,
                       view |-> rows, inserted |-> 0, seen |-> None]
    /\ UNCHANGED <<rows, batchVars, provVars>>

\* One turn of the loop: an error dict is skipped, any other is written
\* with one statement.
ExecuteInsert ==
    /\ storeOp.kind = "recording"
    /\ storeOp.rest # <<>>
    /\ LET q == Head(storeOp.rest)
           view == IF Skipped(q) THEN storeOp.view
                   ELSE InsertOrReplace(storeOp.view,
                                        MakeRow(storeOp.email, storeOp.ptype, q, storeOp.ts))
       IN  /\ rows' = IF Skipped(q) THEN rows ELSE Execute(rows, view)
           /\ storeOp' = [storeOp EXCEPT !.rest = Tail(@), !.view = view,
                                         !.inserted = Counted(@, q)]
    /\ UNCHANGED <<batchVars, provVars>>

\* A statement raises (sqlite3.Error: the disk is full, the file is locked
\* or damaged): except Exception: conn.rollback(); raise.
ExecuteFails ==
    /\ storeOp.kind = "recording"
    /\ storeOp.rest # <<>>
    /\ ~Skipped(Head(storeOp.rest))
    /\ rows' = Rollback(rows, storeOp.view)
    /\ storeOp' = [storeOp EXCEPT !.kind = "record_failed"]
    /\ UNCHANGED <<batchVars, provVars>>

\* The loop is over: conn.commit() on leaving the with block.
CommitRecord ==
    /\ storeOp.kind = "recording"
    /\ storeOp.rest = <<>>
    /\ rows' = Commit(rows, storeOp.view)
    /\ storeOp' = [storeOp EXCEPT !.kind = "recorded"]
    /\ UNCHANGED <<batchVars, provVars>>

\* conn.commit() raises: the same handler rolls back.
CommitFails ==
    /\ storeOp.kind = "recording"
    /\ storeOp.rest = <<>>
    /\ rows' = Rollback(rows, storeOp.view)
    /\ storeOp' = [storeOp EXCEPT !.kind = "record_failed"]
    /\ UNCHANGED <<batchVars, provVars>>

\* Another connection reads the table (query_history, get_aggregation of
\* another process) while the call is under way or just over.
ConcurrentRead ==
    /\ storeOp.kind \in {"recording", "recorded", "record_failed"}
    /\ storeOp.seen = None
    /\ storeOp' = [storeOp EXCEPT !.seen = Some(rows)]
    /\ UNCHANGED <<rows, batchVars, provVars>>

\* The call has returned or raised; its caller goes on.
RecordEnds ==
    /\ storeOp.kind \in {"recorded", "record_failed"}
    /\ storeOp' = NoOp
    /\ UNCHANGED <<rows, batchVars, provVars>>

TransactionNext ==
    \/ BeginRecord
    \/ ExecuteInsert
    \/ ExecuteFails
    \/ CommitRecord
    \/ CommitFails
    \/ ConcurrentRead
    \/ RecordEnds

SpecTransaction == StoreInit /\ [][TransactionNext]_vars

\* The table a record call leaves when all of it is written.
WholeCall(op) == RecordLoop(op.before, 0, op.email, op.ptype, op.quotas, op.ts)[1]

\* C24: what another connection reads while a record call is under way or
\* over is the table without any of the call's rows or the table with all
\* of them, never a table with part of them.
C24_ReadsAllOrNone ==
    (storeOp.kind \in {"recording", "recorded", "record_failed"} /\ storeOp.seen # None)
        => storeOp.seen.v \in {storeOp.before, WholeCall(storeOp)}

\* A call of two rows has written its first row, not yet the second, and
\* another connection has read the table meanwhile.
C24_Witness ==
    /\ storeOp.kind = "recording"
    /\ Len(storeOp.quotas) = 2
    /\ Len(storeOp.rest) = 1
    /\ storeOp.inserted = 1
    /\ storeOp.view # storeOp.before
    /\ storeOp.view # WholeCall(storeOp)
    /\ storeOp.seen = Some(storeOp.before)

\* C30: when a record call fails partway, the table is the one the call
\* found: none of its rows is kept and no earlier row is changed or lost.
C30_FailedCallLeavesNothing ==
    storeOp.kind = "record_failed" => rows = storeOp.before

\* A call has failed after writing one row over an earlier row of the
\* same key, and the table still holds the earlier row.
C30_Witness ==
    /\ storeOp.kind = "record_failed"
    /\ storeOp.inserted = 1
    /\ storeOp.rest # <<>>
    /\ storeOp.before # {}
    /\ storeOp.view # storeOp.before
    /\ rows = storeOp.before


(***************************************************************************)
(* History Store: reads when the storage fails.                            *)
(***************************************************************************)
\* The database file as a statement finds it: sound, not a database any
\* more, or on a disk that fails.
StorageStates == {"ok", "malformed", "disk_error"}

\* sqlite3.DatabaseError / sqlite3.OperationalError
SqliteError(storage) ==
    IF storage = "malformed" THEN "file is not a database" ELSE "disk I/O error"

\* with self._get_connection() as conn: return [...] -- an exception of the
\* statement is rolled back and raised again, a result is returned.
WithConnection(storage, result) ==
    IF storage = "ok" THEN Ret(result) ELSE Raise(SqliteError(storage))

\* Storage.query_history
QueryHistoryRead ==
    /\ storeOp = NoOp
    /\ \E q \in QueryArgs, storage \in StorageStates :
          storeOp' = [kind |-> "query_read", storage |-> storage,
                      out |-> WithConnection(storage,
                                             OrderRows({ r \in rows : Matches(r, q) }))]
    /\ UNCHANGED <<rows, batchVars, provVars>>

\* Storage.get_aggregation
GetAggregationRead ==
    /\ storeOp = NoOp
    /\ \E q \in AggregationArgs, storage \in StorageStates :
          LET window == { r \in rows : Matches(r, q) }
              groups == { GroupOf(r) : r \in window }
              members(g) == { r \in window : GroupOf(r) = g }
          IN  \E bare \in [groups -> window] :
              \E ret \in [1..Cardinality(groups) -> groups] :
                /\ \A g \in groups : bare[g] \in members(g)
                /\ \A i, j \in DOMAIN ret : i # j => ret[i] # ret[j]
                /\ LET out == [i \in DOMAIN ret |-> Aggregate(members(ret[i]), bare[ret[i]])]
                   IN  /\ \A i, j \in DOMAIN out : i < j => ~AggregationBefore(out[j], out[i])
                       /\ storeOp' = [kind |-> "aggregate_read", storage |-> storage,
                                      out |-> WithConnection(storage, out)]
    /\ UNCHANGED <<rows, batchVars, provVars>>

\* HistoryManager.get_history: return self.storage.query_history(...)
GetHistoryRead ==
    /\ storeOp = NoOp
    /\ \E a \in HistoryArgs, now \in Times, storage \in StorageStates :
          LET start_time ==
                  IF a.preset # NoPreset THEN ParseTimePreset(a.preset, now)
                  ELSE IF a.since.text # <<>> THEN ParseDatetime(a.since.text, now)
                  ELSE None
              end_time ==
                  IF a.until.text # <<>> THEN ParseDatetime(a.until.text, now)
                  ELSE None
              q == [since |-> start_time, until |-> end_time,
                    account_email |-> NoFilter, provider_type |-> NoFilter,
                    quota_name |-> NoFilter]
          IN  storeOp' = [kind |-> "get_history_read", storage |-> storage,
                          out |-> WithConnection(storage,
                                                 OrderRows({ r \in rows : Matches(r, q) }))]
    /\ UNCHANGED <<rows, batchVars, provVars>>

StorageFailureNext ==
    \/ RecordQuotas
    \/ QueryHistoryRead
    \/ GetAggregationRead
    \/ GetHistoryRead
    \/ StoreReturn

SpecStorageFailure == StoreInit /\ [][StorageFailureNext]_vars

\* C25: a read of the History Store (query_history, get_aggregation,
\* get_history) that meets a storage failure returns the empty list.
C25_FailedReadIsEmpty ==
    (storeOp.kind \in {"query_read", "aggregate_read", "get_history_read"}
       /\ storeOp.storage # "ok")
        => storeOp.out = Ret(<<>>)


(***************************************************************************)
(* The show command's history write, after the batch fetch has returned.   *)
(***************************************************************************)
\* The quota dict behind a name of a fetched list.
FetchedDict(n) == [name |-> n, is_error |-> FALSE, payload |-> FirstPayload]

\* An exception of the history block that leaves the show command.
RecordRaises(state, failed) == IF failed THEN "raised" ELSE state

\* except Exception as e: logger.warning(...): the command goes on.
RecordCaught(state, failed) == state

\* if quotas and not error and client
Recordable(r) == r.quotas # None /\ r.quotas.v # <<>> /\ r.error = None /\ r.client # None

\* The loop of the history block from entry k of indices_to_check on; the
\* write of entry fail_at raises. <<table, failed>>
RECURSIVE ShowRecordLoop(_, _, _, _)
ShowRecordLoop(table, k, fail_at, ts) ==
    IF k > Len(indices_to_check) THEN <<table, FALSE>>
    ELSE LET idx == indices_to_check[k] IN
         IF idx \notin DOMAIN idx_to_result THEN <<table, TRUE>>
         ELSE LET r == idx_to_result[idx] IN
              IF ~Recordable(r) THEN ShowRecordLoop(table, k + 1, fail_at, ts)
              ELSE IF k = fail_at THEN <<table, TRUE>>
              ELSE ShowRecordLoop(
                       RecordLoop(table, 0, r.email,
                                  IF accounts[idx].type = NoType THEN "unknown"
                                  ELSE accounts[idx].type,
                                  [j \in 1..Len(r.quotas.v) |-> FetchedDict(r.quotas.v[j])],
                                  ts)[1],
                       k + 1, fail_at, ts)

\* show: the block "Record to history database" (not no_record, history
\* enabled). The write of one account may fail (fail_at; 0 for none).
RecordToHistory ==
    /\ pc = "joined"
    /\ storeOp = NoOp
    /\ \E fail_at \in 0..MaxAccounts, ts \in Times :
          LET res == ShowRecordLoop(rows, 1, fail_at, ts) IN
          /\ rows' = res[1]
          /\ storeOp' = [kind |-> "show_record", logged |-> res[2], fail_at |-> fail_at]
          /\ pc' = RecordCaught(pc, res[2])
    /\ UNCHANGED <<accounts, indices_to_check, task, idx_to_result, results, out_of_order,
                   silent_met, provVars>>

ShowNext ==
    \/ FilterAndSubmit
    \/ \E i \in Positions : TaskStart(i)
    \/ \E i \in Positions : IssueCall(i)
    \/ \E i \in Positions : CallEnds(i)
    \/ \E i \in Positions : TaskFinish(i)
    \/ \E i \in Positions : AsCompleted(i)
    \/ ReturnResults
    \/ RecordToHistory
    \/ BuildJsonResults

SpecShow == BatchInit /\ [][ShowNext]_vars

\* C26: when a history write of the show command has failed, the command
\* has not raised, the collected results are the ones the tasks returned,
\* and the output, once built, has every selected account's outcome.
C26_FailedWriteIsDropped ==
    (storeOp.kind = "show_record" /\ storeOp.logged) =>
        /\ pc \in {"joined", "rendered"}
        /\ \A i \in Range(indices_to_check) :
              i \in DOMAIN idx_to_result /\ idx_to_result[i] = task[i].future.v
        /\ pc = "rendered" =>
              results = [k \in 1..Len(indices_to_check) |->
                            JsonEntry(accounts[indices_to_check[k]],
                                      task[indices_to_check[k]].future.v)]

\* Two accounts were fetched with quotas, the history write of the second
\* failed after the first was written, and the output has both accounts.
C26_Witness ==
    /\ storeOp.kind = "show_record"
    /\ storeOp.logged
    /\ storeOp.fail_at = 2
    /\ rows # {}
    /\ pc = "rendered"
    /\ Len(results) = 2
    /\ \A k \in 1..2 : results[k].error = None


(***************************************************************************)
(* OpenAIProvider: the tokens across a fetch that refreshes them.  A token *)
(* is the number of its issue.                                             *)
(***************************************************************************)
MaxTokens == 2

\* What the token endpoint grants with a 200: a new access token and,
\* when it rotates the refresh token, a new refresh token.
Grants(tokens) ==
    { [access_token |-> tokens.access_token + 1, refresh_token |-> r] :
        r \in {None, Some(tokens.refresh_token.v + 1)} }

\* A refresh that answers with the tokens it was asked with.
RefreshReturnsOld(tokens, status, grant) ==
    IF status = "ok" THEN Some(tokens) ELSE None

\* _refresh_access_token: the tokens of a 200, data.get("refresh_token",
\* refresh_token) for the refresh token; None for anything else.
RefreshAccessToken(tokens, status, grant) ==
    IF status = "ok"
    THEN Some([access_token |-> grant.access_token,
               refresh_token |-> IF grant.refresh_token = None THEN tokens.refresh_token
                                 ELSE grant.refresh_token])
    ELSE None

\* The account_data of an OpenAI account with its accessToken and, maybe,
\* its refreshToken, and the provider built on it (__init__ reads both).
TokenAccounts ==
    { ProvAccount("openai", TRUE, r, FALSE, FALSE)
        @@ [tokens |-> [access_token |-> 0,
                        refresh_token |-> IF r THEN Some(0) ELSE None],
            self_tokens |-> [access_token |-> 0,
                             refresh_token |-> IF r THEN Some(0) ELSE None]] :
        r \in BOOLEAN }

TokenInit ==
    /\ StoreIdle
    /\ BatchIdle
    /\ acct \in TokenAccounts
    /\ lastCall = NoFetch
    /\ prevCall = NoFetch

\* OpenAIProvider.fetch_quotas with the tokens it sends and keeps: the
\* first request carries self.access_token; a granted refresh is written
\* to the provider and to account_data, and the retry carries the new
\* access token.
OpenAIFetchRefresh ==
    /\ lastCall = NoFetch
    /\ acct.self_tokens.access_token < MaxTokens
    /\ \E deadline \in Deadlines, env \in OpenAIRemotes :
          LET r == OpenAIFetchQuotas(acct, deadline, env)
              asked == Len(r.calls) >= 2
          IN  \E grant \in IF asked THEN Grants(acct.self_tokens) ELSE {None} :
              LET refreshed == IF asked
                               THEN RefreshAccessToken(acct.self_tokens, r.calls[2].resp, grant)
                               ELSE None
                  after == IF refreshed = None THEN acct
                           ELSE [acct EXCEPT !.self_tokens = refreshed.v,
                                             !.tokens = refreshed.v]
              IN  /\ acct' = after
                  /\ lastCall' = [before |-> acct, grant |-> grant,
                                  bearer |-> IF Len(r.calls) = 3
                                             THEN <<acct.self_tokens.access_token,
                                                    after.self_tokens.access_token>>
                                             ELSE IF Len(r.calls) = 0 THEN <<>>
                                             ELSE <<acct.self_tokens.access_token>>]
                                 @@ CallRecord("fetch_quotas", acct, after, deadline, r, {})
    /\ UNCHANGED <<prevCall, storeVars, batchVars>>

TokenNext == OpenAIFetchRefresh \/ ProvReturn

SpecToken == TokenInit /\ [][TokenNext]_vars

\* The tokens a granted refresh leaves: the new access token, and the new
\* refresh token or, when none was sent, the one the account had.
GrantedTokens(c) ==
    [access_token |-> c.grant.access_token,
     refresh_token |-> IF c.grant.refresh_token = None
                       THEN c.before.self_tokens.refresh_token
                       ELSE c.grant.refresh_token]

\* C28: a fetch whose usage request is answered 401, on an account with a
\* refresh token, asks for a refresh at most once and repeats the usage
\* request at most once, after a granted refresh only; after a granted
\* refresh the provider and the account_data hold the granted tokens, the
\* repeated request carries the new access token, and its answer gives the
\* fetch's result.
C28_RefreshOnceRetryOnce ==
    (/\ lastCall.op = "fetch_quotas"
     /\ lastCall.calls # <<>>
     /\ lastCall.calls[1].resp = "unauthorized"
     /\ lastCall.before.refresh_token) =>
        LET calls == lastCall.calls
            refreshes == { i \in DOMAIN calls : calls[i].ep = "token_refresh" }
            usages == { i \in DOMAIN calls : calls[i].ep = "usage" }
        IN  /\ Cardinality(refreshes) <= 1
            /\ Cardinality(usages) <= 2
            /\ Cardinality(usages) = 2 =>
                  (refreshes = {2} /\ usages = {1, 3} /\ calls[2].resp = "ok")
            /\ (refreshes = {2} /\ calls[2].resp = "ok") =>
                  /\ acct.self_tokens = GrantedTokens(lastCall)
                  /\ acct.tokens = GrantedTokens(lastCall)
                  /\ usages = {1, 3}
                  /\ lastCall.bearer = <<lastCall.before.self_tokens.access_token,
                                         lastCall.grant.access_token>>
                  /\ calls[3].resp \in Responses \ {"net_error"} =>
                        lastCall.out = OpenAIParse(calls[3])
            /\ (refreshes = {} \/ calls[2].resp # "ok") =>
                  /\ acct.self_tokens = lastCall.before.self_tokens
                  /\ acct.tokens = lastCall.before.tokens

\* The 401 was followed by a granted refresh that rotated the refresh
\* token, and the repeated request was answered with the usage.
C28_Witness ==
    /\ lastCall.op = "fetch_quotas"
    /\ Len(lastCall.calls) = 3
    /\ lastCall.calls[1].resp = "unauthorized"
    /\ lastCall.calls[2].resp = "ok"
    /\ lastCall.calls[3].resp = "ok"
    /\ lastCall.grant.refresh_token # None
    /\ acct.tokens.refresh_token = lastCall.grant.refresh_token
    /\ acct.tokens.access_token = 2
    /\ lastCall.out = Ret(<<Quota("OpenAI Codex (Primary)")>>)


(***************************************************************************)
(* GoogleProvider.fetch_quotas with both services: the two sub-fetches run *)
(* in two threads of one provider and share _prefer_no_project (kept in    *)
(* acct); lastCall holds the fetch under way, one record per thread.       *)
(***************************************************************************)
Services == <<"CLI", "AG">>

\* The accounts with both services, with and without a projectId, the
\* preference as account_data's cachedPreferNoProject gives it.
GoogleAccounts ==
    { [ProvAccount("google", TRUE, TRUE, p, FALSE) EXCEPT !.prefer_no_project = f] :
        p, f \in BOOLEAN }

\* _fetch_gemini_cli_quotas / _fetch_antigravity_quotas around the request:
\* the entries of a 200, the empty list for another status or an exception.
SubFetchQuotas(s, out) ==
    IF out.raised THEN <<>>
    ELSE IF out.v = <<"ok">> THEN <<Quota(s)>>
    ELSE <<>>

GoogleInit ==
    /\ StoreIdle
    /\ BatchIdle
    /\ acct \in GoogleAccounts
    /\ lastCall = NoFetch
    /\ prevCall = NoFetch

\* _fetch_services_parallel submits the two fetchers; env is what the two
\* endpoints answer to the scoped and the unscoped request.
SubmitFetchers ==
    /\ lastCall = NoFetch
    /\ \E env \in [Range(Services) -> GoogleRemotes] :
          lastCall' = [op |-> "fetch_services", before |-> acct, env |-> env,
                       th |-> [s \in Range(Services) |->
                                 [pc |-> "start", calls |-> <<>>, out |-> None]]]
    /\ UNCHANGED <<acct, prevCall, storeVars, batchVars>>

\* One step of a sub-fetch inside _make_quota_request: the test of the
\* preference with the request it leads to, or the end of a request with
\* the assignment to the preference that follows it.
SubFetchStep(s) ==
    /\ lastCall.op = "fetch_services"
    /\ LET t == lastCall.th[s]
           sc == MakeCall("scoped", None, DEFAULT_QUOTA_TIMEOUT, lastCall.env[s].scoped, 0)
           un == MakeCall("unscoped", None, DEFAULT_QUOTA_TIMEOUT, lastCall.env[s].unscoped, 0)
           done(out) == [pc |-> "done", calls |-> t.calls, out |-> Some(out)]
       IN  CASE t.pc = "start" ->
                  /\ lastCall' = [lastCall EXCEPT !.th[s] =
                        IF acct.project_id /\ ~acct.prefer_no_project
                        THEN [t EXCEPT !.pc = "scoped", !.calls = <<sc>>]
                        ELSE [t EXCEPT !.pc = "unscoped", !.calls = <<un>>]]
                  /\ acct' = acct
             [] t.pc = "scoped" ->
                  IF sc.resp = "net_error"
                  THEN /\ lastCall' = [lastCall EXCEPT !.th[s] = done(Raise(TimeoutError))]
                       /\ acct' = acct
                  ELSE IF sc.resp = "ok"
                  THEN /\ lastCall' = [lastCall EXCEPT !.th[s] = done(Ret(<<sc.resp>>))]
                       /\ acct' = [acct EXCEPT !.prefer_no_project = FALSE]
                  ELSE /\ lastCall' = [lastCall EXCEPT !.th[s] =
                                          [t EXCEPT !.pc = "unscoped", !.calls = @ \o <<un>>]]
                       /\ acct' = [acct EXCEPT !.prefer_no_project = TRUE]
             [] t.pc = "unscoped" ->
                  IF un.resp = "net_error"
                  THEN /\ lastCall' = [lastCall EXCEPT !.th[s] = done(Raise(TimeoutError))]
                       /\ acct' = acct
                  ELSE /\ lastCall' = [lastCall EXCEPT !.th[s] = done(Ret(<<un.resp>>))]
                       /\ acct' = IF un.resp = "ok"
                                  THEN [acct EXCEPT !.prefer_no_project = TRUE]
                                  ELSE acct
             [] OTHER -> FALSE
    /\ UNCHANGED <<prevCall, storeVars, batchVars>>

\* Both futures have a result: quotas.extend(future.result()), CLI first.
JoinFetchers ==
    /\ lastCall.op = "fetch_services"
    /\ \A s \in Range(Services) : lastCall.th[s].pc = "done"
    /\ lastCall' = [op |-> "fetched_services", before |-> lastCall.before,
                    env |-> lastCall.env, th |-> lastCall.th,
                    out |-> SubFetchQuotas("CLI", lastCall.th["CLI"].out.v)
                            \o SubFetchQuotas("AG", lastCall.th["AG"].out.v)]
    /\ UNCHANGED <<acct, prevCall, storeVars, batchVars>>

\* fetch_quotas has returned; the next fetch builds its provider anew on
\* the account_data, which no request has written to.
ServicesReturn ==
    /\ lastCall.op = "fetched_services"
    /\ lastCall' = NoFetch
    /\ acct' = lastCall.before
    /\ UNCHANGED <<prevCall, storeVars, batchVars>>

GoogleNext ==
    \/ SubmitFetchers
    \/ \E s \in Range(Services) : SubFetchStep(s)
    \/ JoinFetchers
    \/ ServicesReturn

SpecGoogle == GoogleInit /\ [][GoogleNext]_vars

\* What a sub-fetch gives when it meets the preference as the fetch found it.
AloneQuotas(c, s) == SubFetchQuotas(s, GoogleMakeQuotaRequest(c.before, c.env[s]).out)

\* C29: the quotas of a fetch with both services are those each sub-fetch
\* gives on its own, however the two interleave, and no sub-fetch of an
\* account that began with the scoped request in use leaves out a scoped
\* request that its endpoint would have answered with quotas.
C29_InterleavingIndependent ==
    lastCall.op = "fetched_services" =>
        /\ lastCall.out = AloneQuotas(lastCall, "CLI") \o AloneQuotas(lastCall, "AG")
        /\ \A s \in Range(Services) :
              (/\ lastCall.before.project_id
               /\ ~lastCall.before.prefer_no_project
               /\ lastCall.env[s].scoped = "ok") =>
                  \E i \in DOMAIN lastCall.th[s].calls : lastCall.th[s].calls[i].ep = "scoped"

====
